---- MODULE Spec2Model ----
(***************************************************************************)
(* Model of the hierarchical language catalog (language_catalog.py) and    *)
(* its process-wide service (language_service.py).                         *)
(*                                                                         *)
(* Strings are sequences of symbols.  Domain strings are written over the  *)
(* symbols "GLOBAL", "IZATION", "DB", "ORA", "." and " "; no symbol is a   *)
(* prefix of another, so strip(), split(".") and startswith() computed on  *)
(* symbols agree with Python's character-wise results.  Language codes and *)
(* labels are sequences of single characters.                              *)
(***************************************************************************)
EXTENDS Integers, Sequences, FiniteSets, TLC

VARIABLES
    data,            \* LanguageCatalog._data: domain -> label -> lang -> text
    default_lang,    \* LanguageCatalog._default_lang
    allowed,         \* LanguageCatalog._allowed (NoAllowList when None)
    context_domain,  \* LanguageCatalog._context_domain
    initialized,     \* language_service._lang_catalog is not None
    ctx_req,         \* history: the context last asked of the service (None: none)
    instance,        \* which LanguageCatalog object _lang_catalog refers to (0: none
                     \* yet; init_language makes the next one)
    last,            \* the last call made: its name, arguments and outcome
    ncalls,          \* number of state-changing calls made so far
    cfg,             \* lifecycle.state.cfg: the CsvReporterConfig in effect, or NoConfig
    jobs,            \* job_manager._jobs: job id -> Job
    executed,        \* the SQL statements the DB adapter has executed
    written          \* the paths of the files CsvReporter has written

vars == <<data, default_lang, allowed, context_domain, initialized, ctx_req, instance, last,
          ncalls, cfg, jobs, executed, written>>

server == <<cfg, jobs, executed, written>>

service == <<initialized, ctx_req, instance>>

catalog == <<data, default_lang, allowed, context_domain>>

-----------------------------------------------------------------------------
(* Bounds *)

\* longest domain string (in symbols) handed to _domain_chain
MaxDomLen == 5

\* most entries of a store a query is made on
MaxEntries == 2

\* longest sequence of mutator calls made on one catalog
MaxCalls == 2

\* jobs started on one JobManager
MaxJobs == 2

-----------------------------------------------------------------------------
(* Python values *)

\* Python's None, as a value comparable with every string of the model
None == <<"<None>">>

\* the empty str
EmptyStr == <<>>

\* truthiness of an Optional[str]: None and "" are falsy
Truthy(s) == s # None /\ s # EmptyStr

IsWhitespace(c) == c = " "

RECURSIVE LStrip(_)
LStrip(s) ==
    IF s # <<>> /\ IsWhitespace(Head(s)) THEN LStrip(Tail(s)) ELSE s

RECURSIVE RStrip(_)
RStrip(s) ==
    IF s # <<>> /\ IsWhitespace(s[Len(s)])
    THEN RStrip(SubSeq(s, 1, Len(s) - 1))
    ELSE s

\* str.strip()
Strip(s) == RStrip(LStrip(s))

\* str.split("."): the list of the parts between the separators
RECURSIVE SplitDot(_, _)
SplitDot(s, cur) ==
    IF s = <<>> THEN <<cur>>
    ELSE IF Head(s) = "." THEN <<cur>> \o SplitDot(Tail(s), <<>>)
    ELSE SplitDot(Tail(s), Append(cur, Head(s)))

Split(s) == SplitDot(s, <<>>)

\* ".".join(parts)
RECURSIVE JoinDot(_)
JoinDot(parts) ==
    IF parts = <<>> THEN <<>>
    ELSE IF Len(parts) = 1 THEN parts[1]
    ELSE parts[1] \o <<".">> \o JoinDot(Tail(parts))

\* str.startswith(prefix)
StartsWith(s, prefix) ==
    Len(prefix) <= Len(s) /\ SubSeq(s, 1, Len(prefix)) = prefix

-----------------------------------------------------------------------------
(* Domain utilities *)

ROOT_DOMAIN == <<"GLOBAL">>

\* _normalize_domain without the strip()
_normalize_domain_nostrip(domain) ==
    IF ~Truthy(domain) THEN ROOT_DOMAIN ELSE domain

_normalize_domain(domain) ==
    IF ~Truthy(domain) THEN ROOT_DOMAIN
    ELSE LET d == Strip(domain) IN IF d # EmptyStr THEN d ELSE ROOT_DOMAIN

\* _domain_chain without the final "append ROOT_DOMAIN"
_domain_chain_noappend(domain) ==
    LET dom   == _normalize_domain(domain)
        parts == Split(dom)
        n     == Len(parts)
    IN  IF dom = ROOT_DOMAIN THEN <<ROOT_DOMAIN>>
        ELSE [k \in 1..n |-> JoinDot(SubSeq(parts, 1, n - k + 1))]

_domain_chain(domain) ==
    LET dom   == _normalize_domain(domain)
        parts == Split(dom)
        n     == Len(parts)
        out   == [k \in 1..n |-> JoinDot(SubSeq(parts, 1, n - k + 1))]
    IN  IF dom = ROOT_DOMAIN THEN <<ROOT_DOMAIN>>
        ELSE IF out[n] # ROOT_DOMAIN THEN Append(out, ROOT_DOMAIN)
        ELSE out

-----------------------------------------------------------------------------
(* Python dicts are functions; {} is the function with empty domain *)

EmptyDict == <<>>

\* d.get(k, {}) for the nested buckets
GetOrEmpty(d, k) == IF k \in DOMAIN d THEN d[k] ELSE EmptyDict

\* d[k] = v
Put(d, k, v) == [x \in DOMAIN d \cup {k} |-> IF x = k THEN v ELSE d[x]]

\* d.setdefault(k, v), as the dict afterwards
SetDefault(d, k, v) == IF k \in DOMAIN d THEN d ELSE Put(d, k, v)

\* a value that is not a str (a JSON number where a text is expected)
NonStr == <<"<int>">>

IsStr(x) == x # None /\ x # NonStr

\* str.upper() on the characters language codes are written with
UpperChar(c) ==
    CASE c = "e" -> "E"
      [] c = "n" -> "N"
      [] c = "d" -> "D"
      [] c = "f" -> "F"
      [] c = "r" -> "R"
      [] OTHER -> c

Upper(s) == [i \in 1..Len(s) |-> UpperChar(s[i])]

\* code points of the characters labels are written with ("B" < "a")
CodePoint(c) ==
    CASE c = "A" -> 65
      [] c = "B" -> 66
      [] c = "D" -> 68
      [] c = "E" -> 69
      [] c = "F" -> 70
      [] c = "N" -> 78
      [] c = "R" -> 82
      [] c = "a" -> 97
      [] OTHER -> 0

\* s < t for Python strings (lexicographic by code point)
RECURSIVE LexLess(_, _)
LexLess(s, t) ==
    IF t = <<>> THEN FALSE
    ELSE IF s = <<>> THEN TRUE
    ELSE IF CodePoint(Head(s)) # CodePoint(Head(t))
         THEN CodePoint(Head(s)) < CodePoint(Head(t))
    ELSE LexLess(Tail(s), Tail(t))

\* sorted(S) for a set of strings
RECURSIVE Sorted(_)
Sorted(S) ==
    IF S = {} THEN <<>>
    ELSE LET m == CHOOSE x \in S : \A y \in S \ {x} : LexLess(x, y)
         IN  <<m>> \o Sorted(S \ {m})

-----------------------------------------------------------------------------
(* LanguageCatalog.  A catalog object is the record of its fields; a method *)
(* yields a record with the exception raised ("none" when it returns), the *)
(* value returned and, for a mutator, the object afterwards.               *)

NoAllowList == {None}

Catalog(d, dl, al, ctx) ==
    [_data |-> d, _default_lang |-> dl, _allowed |-> al, _context_domain |-> ctx]

\* LanguageCatalog(default_lang, allowed_langs); allowed_langs is None or a
\* set of raw codes
__init__(default_lang_arg, allowed_langs) ==
    Catalog(EmptyDict,
            IF Truthy(default_lang_arg) THEN Upper(default_lang_arg) ELSE <<"E", "N">>,
            IF allowed_langs # NoAllowList /\ allowed_langs # {}
            THEN {Upper(s) : s \in allowed_langs}
            ELSE NoAllowList,
            ROOT_DOMAIN)

_normalize_lang(self, lang) ==
    IF ~Truthy(lang) THEN [exc |-> "ValueError", ret |-> None]
    ELSE LET code == Upper(lang)
         IN  IF self._allowed # NoAllowList /\ code \notin self._allowed
             THEN [exc |-> "ValueError", ret |-> None]
             ELSE [exc |-> "none", ret |-> code]

set_default_lang(self, lang) ==
    LET n == _normalize_lang(self, lang)
    IN  IF n.exc # "none" THEN [exc |-> n.exc, self |-> self]
        ELSE [exc |-> "none", self |-> [self EXCEPT !._default_lang = n.ret]]

set_context(self, domain) ==
    [exc |-> "none", self |-> [self EXCEPT !._context_domain = _normalize_domain(domain)]]

\* "domain or self._context_domain" falling back to the root, not the context
DomainOrContext_root(self, domain) ==
    IF Truthy(domain) THEN domain ELSE ROOT_DOMAIN

\* "domain or self._context_domain"
DomainOrContext(self, domain) ==
    IF Truthy(domain) THEN domain ELSE self._context_domain

\* set_text that ignores overwrite=False
set_text_always_overwrite(self, label, lang, text, overwrite, domain) ==
    IF ~Truthy(label) THEN [exc |-> "ValueError", self |-> self]
    ELSE
    LET n == _normalize_lang(self, lang) IN
    IF n.exc # "none" THEN [exc |-> n.exc, self |-> self]
    ELSE IF ~IsStr(text) THEN [exc |-> "ValueError", self |-> self]
    ELSE
    LET dom  == _normalize_domain(DomainOrContext(self, domain))
        d1   == SetDefault(self._data, dom, EmptyDict)
        bucket_labels == SetDefault(d1[dom], label, EmptyDict)
    IN  [exc |-> "none",
         self |-> [self EXCEPT !._data =
                     Put(d1, dom, Put(bucket_labels, label,
                                      Put(bucket_labels[label], n.ret, text)))]]

\* set_text that creates the buckets before it validates the language
set_text_buckets_first(self, label, lang, text, overwrite, domain) ==
    IF ~Truthy(label) THEN [exc |-> "ValueError", self |-> self]
    ELSE
    LET dom  == _normalize_domain(DomainOrContext(self, domain))
        d1   == SetDefault(self._data, dom, EmptyDict)
        bucket_labels == SetDefault(d1[dom], label, EmptyDict)
        bucket_langs  == bucket_labels[label]
        made == [self EXCEPT !._data = Put(d1, dom, bucket_labels)]
        n    == _normalize_lang(self, lang)
    IN  IF n.exc # "none" THEN [exc |-> n.exc, self |-> made]
        ELSE IF ~IsStr(text) THEN [exc |-> "ValueError", self |-> made]
        ELSE IF ~overwrite /\ n.ret \in DOMAIN bucket_langs
        THEN [exc |-> "none", self |-> made]
        ELSE [exc |-> "none",
              self |-> [self EXCEPT !._data =
                          Put(d1, dom, Put(bucket_labels, label, Put(bucket_langs, n.ret, text)))]]

\* set_text that, overwriting an entry, appends the text to the one stored
set_text_append(self, label, lang, text, overwrite, domain) ==
    IF ~Truthy(label) THEN [exc |-> "ValueError", self |-> self]
    ELSE
    LET n == _normalize_lang(self, lang) IN
    IF n.exc # "none" THEN [exc |-> n.exc, self |-> self]
    ELSE IF ~IsStr(text) THEN [exc |-> "ValueError", self |-> self]
    ELSE
    LET code == n.ret
        dom  == _normalize_domain(DomainOrContext(self, domain))
        d1   == SetDefault(self._data, dom, EmptyDict)
        bucket_labels == SetDefault(d1[dom], label, EmptyDict)
        bucket_langs  == bucket_labels[label]
        new  == IF code \in DOMAIN bucket_langs THEN bucket_langs[code] \o text ELSE text
    IN  IF ~overwrite /\ code \in DOMAIN bucket_langs
        THEN [exc |-> "none", self |-> [self EXCEPT !._data = Put(d1, dom, bucket_labels)]]
        ELSE [exc |-> "none",
              self |-> [self EXCEPT !._data =
                          Put(d1, dom, Put(bucket_labels, label, Put(bucket_langs, code, new)))]]

set_text(self, label, lang, text, overwrite, domain) ==
    IF ~Truthy(label) THEN [exc |-> "ValueError", self |-> self]
    ELSE
    LET n == _normalize_lang(self, lang) IN
    IF n.exc # "none" THEN [exc |-> n.exc, self |-> self]
    ELSE IF ~IsStr(text) THEN [exc |-> "ValueError", self |-> self]
    ELSE
    LET code == n.ret
        dom  == _normalize_domain(DomainOrContext(self, domain))
        d1   == SetDefault(self._data, dom, EmptyDict)
        bucket_labels == SetDefault(d1[dom], label, EmptyDict)
        bucket_langs  == bucket_labels[label]
    IN  IF ~overwrite /\ code \in DOMAIN bucket_langs
        THEN [exc |-> "none", self |-> [self EXCEPT !._data = Put(d1, dom, bucket_labels)]]
        ELSE [exc |-> "none",
              self |-> [self EXCEPT !._data =
                          Put(d1, dom, Put(bucket_labels, label, Put(bucket_langs, code, text)))]]

\* the loop of get_text without its third tier (the catalog default language)
RECURSIVE GetTextLoop_no_default_tier(_, _, _, _, _, _)
GetTextLoop_no_default_tier(self, chain, i, label, primary_lang, fallback_code) ==
    IF i > Len(chain) THEN [found |-> FALSE, ret |-> None]
    ELSE
    LET langs == GetOrEmpty(GetOrEmpty(self._data, chain[i]), label)
        rest  == GetTextLoop_no_default_tier(self, chain, i + 1, label, primary_lang,
                                             fallback_code)
    IN  IF primary_lang \in DOMAIN langs
        THEN [found |-> TRUE, ret |-> langs[primary_lang]]
        ELSE IF fallback_code # None /\ fallback_code \in DOMAIN langs
             THEN [found |-> TRUE, ret |-> langs[fallback_code]]
        ELSE rest

\* the loop of get_text preferring the language to the domain: the primary
\* language is looked up along the whole chain before any other tier
RECURSIVE GetTextLoop_language_first(_, _, _, _, _, _)
GetTextLoop_language_first(self, chain, i, label, primary_lang, fallback_code) ==
    LET At(d, l) == l \in DOMAIN GetOrEmpty(GetOrEmpty(self._data, d), label)
        tiers == <<primary_lang>>
                 \o (IF fallback_code # None THEN <<fallback_code>> ELSE <<>>)
                 \o <<self._default_lang>>
        hits  == {<<t, j>> \in (1..Len(tiers)) \X (i..Len(chain)) : At(chain[j], tiers[t])}
    IN  IF hits = {} THEN [found |-> FALSE, ret |-> None]
        ELSE LET h == CHOOSE x \in hits : \A y \in hits :
                         x[1] < y[1] \/ (x[1] = y[1] /\ x[2] <= y[2])
             IN  [found |-> TRUE, ret |-> self._data[chain[h[2]]][label][tiers[h[1]]]]

\* the "for d in chain" loop of get_text, from position i on
RECURSIVE GetTextLoop(_, _, _, _, _, _)
GetTextLoop(self, chain, i, label, primary_lang, fallback_code) ==
    IF i > Len(chain) THEN [found |-> FALSE, ret |-> None]
    ELSE
    LET d      == chain[i]
        labels == GetOrEmpty(self._data, d)
        langs  == GetOrEmpty(labels, label)
        rest   == GetTextLoop(self, chain, i + 1, label, primary_lang, fallback_code)
        tried  == {primary_lang} \cup (IF fallback_code # None THEN {fallback_code} ELSE {})
    IN  IF DOMAIN labels = {} THEN rest
        ELSE IF DOMAIN langs = {} THEN rest
        ELSE IF primary_lang \in DOMAIN langs
             THEN [found |-> TRUE, ret |-> langs[primary_lang]]
        ELSE IF fallback_code # None /\ fallback_code \in DOMAIN langs
             THEN [found |-> TRUE, ret |-> langs[fallback_code]]
        ELSE IF self._default_lang \notin tried /\ self._default_lang \in DOMAIN langs
             THEN [found |-> TRUE, ret |-> langs[self._default_lang]]
        ELSE rest

\* "default is not None", read for a falsy default
DefaultGiven_truthy(default) == Truthy(default)

\* "default is not None"
DefaultGiven(default) == default # None

get_text(self, label, lang, fallback_lang, default, domain) ==
    IF ~Truthy(label)
    THEN IF DefaultGiven(default) THEN [exc |-> "none", ret |-> default, chain |-> <<>>]
         ELSE [exc |-> "KeyError", ret |-> None, chain |-> <<>>]
    ELSE
    LET dom   == _normalize_domain(DomainOrContext(self, domain))
        chain == _domain_chain(dom)
        p     == IF Truthy(lang) THEN _normalize_lang(self, lang)
                 ELSE [exc |-> "none", ret |-> self._default_lang]
        f     == IF Truthy(fallback_lang) THEN _normalize_lang(self, fallback_lang)
                 ELSE [exc |-> "none", ret |-> None]
    IN  IF p.exc # "none" THEN [exc |-> p.exc, ret |-> None, chain |-> <<>>]
        ELSE IF f.exc # "none" THEN [exc |-> f.exc, ret |-> None, chain |-> <<>>]
        ELSE
        LET r == GetTextLoop(self, chain, 1, label, p.ret, f.ret)
        IN  IF r.found THEN [exc |-> "none", ret |-> r.ret, chain |-> <<>>]
            ELSE IF DefaultGiven(default) THEN [exc |-> "none", ret |-> default, chain |-> <<>>]
            \* KeyError(f"Text not found for label={label!r} in domain chain {chain}")
            ELSE [exc |-> "KeyError", ret |-> label, chain |-> chain]

\* the replacement field a template symbol names ("" when it names none)
FieldOf(sym) == IF sym = "{name}" THEN "name" ELSE ""

\* str.format(**kwargs), symbol by symbol: "{name}" is replaced by the value
\* of name (KeyError when missing), "{}" needs a positional argument
\* (IndexError), "{{" is an escaped brace, a single "{" is malformed
RECURSIVE Format(_, _)
Format(template, kwargs) ==
    IF template = <<>> THEN [exc |-> "none", ret |-> <<>>]
    ELSE
    LET sym  == Head(template)
        rest == Format(Tail(template), kwargs)
    IN  IF sym = "{" THEN [exc |-> "ValueError", ret |-> <<>>]
        ELSE IF sym = "{}" THEN [exc |-> "IndexError", ret |-> <<>>]
        ELSE IF FieldOf(sym) # "" /\ FieldOf(sym) \notin DOMAIN kwargs
             THEN [exc |-> "KeyError", ret |-> <<>>]
        ELSE IF rest.exc # "none" THEN rest
        ELSE IF sym = "{{" THEN [exc |-> "none", ret |-> <<"{">> \o rest.ret]
        ELSE IF FieldOf(sym) # "" THEN [exc |-> "none", ret |-> <<kwargs[FieldOf(sym)]>> \o rest.ret]
        ELSE [exc |-> "none", ret |-> <<sym>> \o rest.ret]

\* fmt letting the exception of str.format through
fmt_strict(self, label, lang, fallback_lang, default, domain, kwargs) ==
    LET t == get_text(self, label, lang, fallback_lang, default, domain)
    IN  IF t.exc # "none" THEN t
        ELSE LET f == Format(t.ret, kwargs)
             IN  IF f.exc = "none" THEN [t EXCEPT !.ret = f.ret]
                 ELSE [t EXCEPT !.exc = f.exc]

fmt(self, label, lang, fallback_lang, default, domain, kwargs) ==
    LET t == get_text(self, label, lang, fallback_lang, default, domain)
    IN  IF t.exc # "none" THEN t
        ELSE LET f == Format(t.ret, kwargs)
             IN  IF f.exc = "none" THEN [t EXCEPT !.ret = f.ret] ELSE t

\* the has_text loop "for d in domains": some domain holds the label, in the
\* language code when one is given
HasTextLoop(self, domains, label, code) ==
    \E i \in 1..Len(domains) :
        LET labels   == GetOrEmpty(self._data, domains[i])
            lang_map == GetOrEmpty(labels, label)
        IN  /\ labels # EmptyDict
            /\ lang_map # EmptyDict
            /\ Truthy(code) => code \in DOMAIN lang_map

\* has_text looking at the exact domain only, whatever recursive is
has_text_exact_only(self, label, lang, domain, recursive) ==
    IF ~Truthy(label) \/ ~IsStr(label) THEN [exc |-> "none", ret |-> FALSE]
    ELSE
    LET dom  == _normalize_domain(DomainOrContext(self, domain))
        code == IF Truthy(lang) THEN _normalize_lang(self, lang)
                ELSE [exc |-> "none", ret |-> None]
    IN  IF code.exc # "none" THEN [exc |-> code.exc, ret |-> FALSE]
        ELSE [exc |-> "none", ret |-> HasTextLoop(self, <<dom>>, label, code.ret)]

\* has_text that does not look at the language it is given
has_text_any_lang(self, label, lang, domain, recursive) ==
    IF ~Truthy(label) \/ ~IsStr(label) THEN [exc |-> "none", ret |-> FALSE]
    ELSE
    LET dom     == _normalize_domain(DomainOrContext(self, domain))
        domains == IF recursive THEN _domain_chain(dom) ELSE <<dom>>
    IN  [exc |-> "none", ret |-> HasTextLoop(self, domains, label, None)]

has_text(self, label, lang, domain, recursive) ==
    IF ~Truthy(label) \/ ~IsStr(label) THEN [exc |-> "none", ret |-> FALSE]
    ELSE
    LET dom     == _normalize_domain(DomainOrContext(self, domain))
        domains == IF recursive THEN _domain_chain(dom) ELSE <<dom>>
        code    == IF Truthy(lang) THEN _normalize_lang(self, lang)
                   ELSE [exc |-> "none", ret |-> None]
    IN  IF code.exc # "none" THEN [exc |-> code.exc, ret |-> FALSE]
        ELSE [exc |-> "none", ret |-> HasTextLoop(self, domains, label, code.ret)]

\* the labels of all domains of a dict of domains
LabelsOf(d, doms) == UNION {DOMAIN d[x] : x \in doms}

\* list_labels matching descendants by the bare prefix, without the "."
list_labels_bare_prefix(self, domain, recursive) ==
    IF domain = None THEN Sorted(LabelsOf(self._data, DOMAIN self._data))
    ELSE
    LET dom == _normalize_domain(domain)
    IN  IF ~recursive THEN Sorted(DOMAIN GetOrEmpty(self._data, dom))
        ELSE Sorted(DOMAIN GetOrEmpty(self._data, dom)
                    \cup LabelsOf(self._data, {d \in DOMAIN self._data : StartsWith(d, dom)}))

list_labels(self, domain, recursive) ==
    IF domain = None THEN Sorted(LabelsOf(self._data, DOMAIN self._data))
    ELSE
    LET dom    == _normalize_domain(domain)
        prefix == dom \o <<".">>
    IN  IF ~recursive THEN Sorted(DOMAIN GetOrEmpty(self._data, dom))
        ELSE Sorted(DOMAIN GetOrEmpty(self._data, dom)
                    \cup LabelsOf(self._data, {d \in DOMAIN self._data : StartsWith(d, prefix)}))

\* the languages of all labels of the domains doms of a dict of domains
LangsOf(d, doms) == UNION {UNION {DOMAIN d[x][l] : l \in DOMAIN d[x]} : x \in doms}

\* the languages of one label in the domains doms ("if label in labels_map")
LangsOfLabel(d, doms, label) ==
    UNION {DOMAIN d[x][label] : x \in {y \in doms : label \in DOMAIN d[y]}}

\* list_languages taking the languages of every label, whatever label is given
list_languages_any_label(self, label, domain, recursive) ==
    IF domain = None THEN Sorted(LangsOf(self._data, DOMAIN self._data))
    ELSE
    LET dom    == _normalize_domain(domain)
        prefix == dom \o <<".">>
        here   == {d \in DOMAIN self._data : d = dom}
        below  == {d \in DOMAIN self._data : d = dom \/ StartsWith(d, prefix)}
    IN  Sorted(LangsOf(self._data, IF recursive THEN below ELSE here))

list_languages(self, label, domain, recursive) ==
    IF label = None /\ domain = None THEN Sorted(LangsOf(self._data, DOMAIN self._data))
    ELSE IF label = None
    THEN LET dom    == _normalize_domain(domain)
             prefix == dom \o <<".">>
         IN  IF ~recursive
             THEN Sorted(LangsOf(self._data, {d \in DOMAIN self._data : d = dom}))
             ELSE Sorted(LangsOf(self._data,
                     {d \in DOMAIN self._data : d = dom \/ StartsWith(d, prefix)}))
    ELSE IF domain = None THEN Sorted(LangsOfLabel(self._data, DOMAIN self._data, label))
    ELSE
    LET dom    == _normalize_domain(domain)
        prefix == dom \o <<".">>
    IN  IF ~recursive
        THEN Sorted(LangsOfLabel(self._data, {d \in DOMAIN self._data : d = dom}, label))
        ELSE Sorted(LangsOfLabel(self._data,
                {d \in DOMAIN self._data : d = dom \/ StartsWith(d, prefix)}, label))

-----------------------------------------------------------------------------
(* JSON documents as json.load returns them: an object is the ordered list *)
(* of its (key, value) items, keys being strings.                          *)

JObj(items) == [t |-> "object", items |-> items]
JArr(items) == [t |-> "array", items |-> items]
JStr(s)     == [t |-> "string", s |-> s]
JNum        == [t |-> "number"]

IsDict(v) == v.t = "object"
IsList(v) == v.t = "array"

\* the Python value of a JSON value where a str is expected
PyStr(v) == IF v.t = "string" THEN v.s ELSE NonStr

\* rec.get(key): the first item with that key, None when there is none
RecGet(rec, key) ==
    LET hits == {i \in 1..Len(rec.items) : rec.items[i][1] = key}
    IN  IF hits = {} THEN None
        ELSE PyStr(rec.items[CHOOSE i \in hits : \A j \in hits : i <= j][2])

\* a file on disk: missing, not JSON, or a JSON document
MissingFile     == [state |-> "missing"]
MalformedFile   == [state |-> "malformed"]
JsonFile(value) == [state |-> "json", value |-> value]

_load_json(file) ==
    IF file.state = "missing" THEN [exc |-> "FileNotFoundError", ret |-> JNum]
    ELSE IF file.state = "malformed" THEN [exc |-> "JSONDecodeError", ret |-> JNum]
    ELSE [exc |-> "none", ret |-> file.value]

\* a loader that stopped with an exception, having got as far as self
Raised(e, self) == [exc |-> e, ret |-> 0, self |-> self]

\* the loop of load_from_file passing no domain to set_text, which then
\* takes the current context
RECURSIVE LegacyLangLoop_context(_, _, _, _, _, _)
LegacyLangLoop_context(self, label, items, j, overwrite, count) ==
    IF j > Len(items) THEN [exc |-> "none", ret |-> count, self |-> self]
    ELSE LET r == set_text(self, label, items[j][1], PyStr(items[j][2]), overwrite, None)
         IN  IF r.exc # "none" THEN Raised(r.exc, r.self)
             ELSE LegacyLangLoop_context(r.self, label, items, j + 1, overwrite, count + 1)

\* load_from_file: "for lang, text in mapping.items()"
RECURSIVE LegacyLangLoop(_, _, _, _, _, _)
LegacyLangLoop(self, label, items, j, overwrite, count) ==
    IF j > Len(items) THEN [exc |-> "none", ret |-> count, self |-> self]
    ELSE LET r == set_text(self, label, items[j][1], PyStr(items[j][2]), overwrite, ROOT_DOMAIN)
         IN  IF r.exc # "none" THEN Raised(r.exc, r.self)
             ELSE LegacyLangLoop(r.self, label, items, j + 1, overwrite, count + 1)

\* load_from_file: "for label, mapping in data.items()"
RECURSIVE LegacyLabelLoop(_, _, _, _, _)
LegacyLabelLoop(self, items, i, overwrite, count) ==
    IF i > Len(items) THEN [exc |-> "none", ret |-> count, self |-> self]
    ELSE IF ~IsDict(items[i][2]) THEN Raised("ValueError", self)
    ELSE LET r == LegacyLangLoop(self, items[i][1], items[i][2].items, 1, overwrite, count)
         IN  IF r.exc # "none" THEN r
             ELSE LegacyLabelLoop(r.self, items, i + 1, overwrite, r.ret)

\* load_from_file: "for rec in data"
RECURSIVE LegacyRecordLoop(_, _, _, _, _)
LegacyRecordLoop(self, recs, i, overwrite, count) ==
    IF i > Len(recs) THEN [exc |-> "none", ret |-> count, self |-> self]
    ELSE IF ~IsDict(recs[i]) THEN Raised("ValueError", self)
    ELSE
    LET label == RecGet(recs[i], <<"label">>)
        lang  == RecGet(recs[i], <<"lang">>)
        text  == RecGet(recs[i], <<"text">>)
    IN  IF ~IsStr(label) \/ ~IsStr(lang) \/ ~IsStr(text) THEN Raised("ValueError", self)
        ELSE LET r == set_text(self, label, lang, text, overwrite, ROOT_DOMAIN)
             IN  IF r.exc # "none" THEN Raised(r.exc, r.self)
                 ELSE LegacyRecordLoop(r.self, recs, i + 1, overwrite, count + 1)

load_from_file(self, file, overwrite) ==
    LET j == _load_json(file)
    IN  IF j.exc # "none" THEN Raised(j.exc, self)
        ELSE IF IsDict(j.ret) THEN LegacyLabelLoop(self, j.ret.items, 1, overwrite, 0)
        ELSE IF IsList(j.ret) THEN LegacyRecordLoop(self, j.ret.items, 1, overwrite, 0)
        ELSE Raised("ValueError", self)

add_file(self, file, overwrite) == load_from_file(self, file, overwrite)

\* load_domains_from_file: "for lang, text in lang_map.items()"
RECURSIVE DomainLangLoop(_, _, _, _, _, _, _)
DomainLangLoop(self, dom_norm, label, items, k, overwrite, count) ==
    IF k > Len(items) THEN [exc |-> "none", ret |-> count, self |-> self]
    ELSE IF items[k][2].t # "string" THEN Raised("ValueError", self)
    ELSE LET r == set_text(self, label, items[k][1], PyStr(items[k][2]), overwrite, dom_norm)
         IN  IF r.exc # "none" THEN Raised(r.exc, r.self)
             ELSE DomainLangLoop(r.self, dom_norm, label, items, k + 1, overwrite, count + 1)

\* load_domains_from_file: "for label, lang_map in labels.items()"
RECURSIVE DomainLabelLoop(_, _, _, _, _, _)
DomainLabelLoop(self, dom_norm, items, j, overwrite, count) ==
    IF j > Len(items) THEN [exc |-> "none", ret |-> count, self |-> self]
    ELSE IF ~IsDict(items[j][2]) THEN Raised("ValueError", self)
    ELSE LET r == DomainLangLoop(self, dom_norm, items[j][1], items[j][2].items, 1,
                                 overwrite, count)
         IN  IF r.exc # "none" THEN r
             ELSE DomainLabelLoop(r.self, dom_norm, items, j + 1, overwrite, r.ret)

\* load_domains_from_file: "for dom, labels in data.items()"
RECURSIVE DomainLoop(_, _, _, _, _)
DomainLoop(self, items, i, overwrite, count) ==
    IF i > Len(items) THEN [exc |-> "none", ret |-> count, self |-> self]
    ELSE IF ~IsDict(items[i][2]) THEN Raised("ValueError", self)
    ELSE LET r == DomainLabelLoop(self, _normalize_domain(items[i][1]),
                                  items[i][2].items, 1, overwrite, count)
         IN  IF r.exc # "none" THEN r
             ELSE DomainLoop(r.self, items, i + 1, overwrite, r.ret)

load_domains_from_file(self, file, overwrite) ==
    LET j == _load_json(file)
    IN  IF j.exc # "none" THEN Raised(j.exc, self)
        ELSE IF ~IsDict(j.ret) THEN Raised("ValueError", self)
        ELSE DomainLoop(self, j.ret.items, 1, overwrite, 0)

\* load_language_only_from_file: "for label, text in data.items()"
RECURSIVE SingleItemLoop(_, _, _, _, _, _, _)
SingleItemLoop(self, code, tgt_domain, items, i, overwrite, count) ==
    IF i > Len(items) THEN [exc |-> "none", ret |-> count, self |-> self]
    ELSE IF items[i][2].t # "string" THEN Raised("ValueError", self)
    ELSE LET r == set_text(self, items[i][1], code, PyStr(items[i][2]), overwrite, tgt_domain)
         IN  IF r.exc # "none" THEN Raised(r.exc, r.self)
             ELSE SingleItemLoop(r.self, code, tgt_domain, items, i + 1, overwrite, count + 1)

\* load_language_only_from_file: "for rec in data"
RECURSIVE SingleRecordLoop(_, _, _, _, _, _, _)
SingleRecordLoop(self, code, tgt_domain, recs, i, overwrite, count) ==
    IF i > Len(recs) THEN [exc |-> "none", ret |-> count, self |-> self]
    ELSE IF ~IsDict(recs[i]) THEN Raised("ValueError", self)
    ELSE
    LET label == RecGet(recs[i], <<"label">>)
        text  == RecGet(recs[i], <<"text">>)
    IN  IF ~IsStr(label) \/ ~IsStr(text) THEN Raised("ValueError", self)
        ELSE LET r == set_text(self, label, code, text, overwrite, tgt_domain)
             IN  IF r.exc # "none" THEN Raised(r.exc, r.self)
                 ELSE SingleRecordLoop(r.self, code, tgt_domain, recs, i + 1, overwrite,
                                       count + 1)

load_language_only_from_file(self, lang, file, overwrite, domain) ==
    LET n == _normalize_lang(self, lang)
        tgt_domain == _normalize_domain(domain)
        j == _load_json(file)
    IN  IF n.exc # "none" THEN Raised(n.exc, self)
        ELSE IF j.exc # "none" THEN Raised(j.exc, self)
        ELSE IF IsDict(j.ret)
             THEN SingleItemLoop(self, n.ret, tgt_domain, j.ret.items, 1, overwrite, 0)
        ELSE IF IsList(j.ret)
             THEN SingleRecordLoop(self, n.ret, tgt_domain, j.ret.items, 1, overwrite, 0)
        ELSE Raised("ValueError", self)

reload_from_file(self, file) ==
    load_from_file([self EXCEPT !._data = EmptyDict], file, TRUE)

-----------------------------------------------------------------------------
(* language_service.  _lang_catalog is None (inited = FALSE) or the catalog *)
(* object cat.                                                             *)

\* init_language assigning _lang_catalog before it loads the file
init_language_assign_first(file, default_lang_arg, allowed_langs, overwrite, context, domain_aware) ==
    LET cat == __init__(default_lang_arg, allowed_langs)
        r   == IF domain_aware THEN load_domains_from_file(cat, file, overwrite)
               ELSE load_from_file(cat, file, overwrite)
    IN  IF r.exc # "none" THEN [exc |-> r.exc, assigned |-> TRUE, self |-> r.self]
        ELSE [exc |-> "none", assigned |-> TRUE,
              self |-> IF context # None THEN set_context(r.self, context).self ELSE r.self]

init_language(file, default_lang_arg, allowed_langs, overwrite, context, domain_aware) ==
    LET cat == __init__(default_lang_arg, allowed_langs)
        r   == IF domain_aware THEN load_domains_from_file(cat, file, overwrite)
               ELSE load_from_file(cat, file, overwrite)
    IN  IF r.exc # "none" THEN [exc |-> r.exc, assigned |-> FALSE, self |-> r.self]
        ELSE [exc |-> "none", assigned |-> TRUE,
              self |-> IF context # None THEN set_context(r.self, context).self ELSE r.self]

\* get_language() that returns _lang_catalog without looking at it
get_language_unchecked(inited) == "none"

\* get_language(): the exception it raises
get_language(inited) == IF inited THEN "none" ELSE "RuntimeError"

set_language_context(inited, cat, domain) ==
    IF get_language(inited) # "none" THEN [exc |-> get_language(inited), self |-> cat]
    ELSE set_context(cat, domain)

set_default_language(inited, cat, lang) ==
    IF get_language(inited) # "none" THEN [exc |-> get_language(inited), self |-> cat]
    ELSE set_default_lang(cat, lang)

\* add_language_file clearing the store first, as reload_from_file does
add_language_file_reload(inited, cat, file, overwrite) ==
    IF get_language(inited) # "none" THEN Raised(get_language(inited), cat)
    ELSE reload_from_file(cat, file)

add_language_file(inited, cat, file, overwrite) ==
    IF get_language(inited) # "none" THEN Raised(get_language(inited), cat)
    ELSE add_file(cat, file, overwrite)

add_domain_file(inited, cat, file, overwrite) ==
    IF get_language(inited) # "none" THEN Raised(get_language(inited), cat)
    ELSE load_domains_from_file(cat, file, overwrite)

add_single_language_file(inited, cat, lang, file, overwrite, domain) ==
    IF get_language(inited) # "none" THEN Raised(get_language(inited), cat)
    ELSE load_language_only_from_file(cat, lang, file, overwrite, domain)

service_text(inited, cat, label, lang, domain, default, fallback_lang) ==
    IF get_language(inited) # "none"
    THEN [exc |-> get_language(inited), ret |-> None, chain |-> <<>>]
    ELSE get_text(cat, label, lang, fallback_lang, default, domain)

service_fmt(inited, cat, label, lang, domain, default, fallback_lang, kwargs) ==
    IF get_language(inited) # "none"
    THEN [exc |-> get_language(inited), ret |-> None, chain |-> <<>>]
    ELSE fmt(cat, label, lang, fallback_lang, default, domain, kwargs)

-----------------------------------------------------------------------------
(* CsvReporterConfig and the server state it lives in.  A config object is *)
(* the record of its two dicts; lang is the language service as the config *)
(* code finds it through get_language(): [inited, cat].                    *)

ERR_FILE_NOT_FOUND      == <<"ERR_FILE_NOT_FOUND">>
ERR_JSON_MUST_BE_OBJECT == <<"ERR_JSON_MUST_BE_OBJECT">>
ERR_INVALID_QUERY_ENTRY == <<"ERR_INVALID_QUERY_ENTRY">>
ERR_INVALID_CSV_ENTRY   == <<"ERR_INVALID_CSV_ENTRY">>
ERR_DELIMITER_INVALID   == <<"ERR_DELIMITER_INVALID">>
ERR_QUOTECHAR_INVALID   == <<"ERR_QUOTECHAR_INVALID">>
ERR_QUOTING_INVALID     == <<"ERR_QUOTING_INVALID">>
ERR_DECIMAL_INVALID     == <<"ERR_DECIMAL_INVALID">>

\* the exception of a call that raised, else exc
RaisedOr(call, exc) == IF call.exc # "none" THEN call.exc ELSE exc

\* "msg = get_language().fmt(label, ...)" or ".get_text(label)", then
\* "raise exc(msg)": the exception that leaves the statement
Localized(lang, label, exc) ==
    IF ~lang.inited THEN get_language(lang.inited)
    ELSE RaisedOr(get_text(lang.cat, label, None, None, None, None), exc)

\* JSON true, and the Python values of JSON values in a config dict
JTrue  == [t |-> "true"]
PyTrue == <<"<True>">>

PyValue(v) == IF v.t = "string" THEN v.s ELSE IF v.t = "true" THEN PyTrue ELSE NonStr

IsStrValue(x) == x \notin {None, NonStr, PyTrue}

\* dict(cfg) of a JSON object (of two items with one key, the later stays)
DictOf(obj) ==
    [k \in {obj.items[i][1] : i \in 1..Len(obj.items)} |->
        LET hits == {i \in 1..Len(obj.items) : obj.items[i][1] = k}
        IN  PyValue(obj.items[CHOOSE i \in hits : \A j \in hits : j <= i][2])]

\* None where a CsvReporterConfig is expected
NoConfig == [none |-> TRUE]

\* CsvReporterConfig()
CsvReporterConfig == [_queries |-> EmptyDict, _csv_configs |-> EmptyDict]

list_query_labels(self) == Sorted(DOMAIN self._queries)

list_csv_config_labels(self) == Sorted(DOMAIN self._csv_configs)

_load_json_dict(lang, file) ==
    IF file.state = "missing"
    THEN [exc |-> Localized(lang, ERR_FILE_NOT_FOUND, "FileNotFoundError"), ret |-> JNum]
    ELSE IF file.state = "malformed" THEN [exc |-> "JSONDecodeError", ret |-> JNum]
    ELSE IF ~IsDict(file.value)
    THEN [exc |-> Localized(lang, ERR_JSON_MUST_BE_OBJECT, "ValueError"), ret |-> JNum]
    ELSE [exc |-> "none", ret |-> file.value]

\* the defaults _normalize_csv_config sets
CsvDefaults ==
    [delimiter |-> <<";">>, quotechar |-> <<"\"">>, quoting |-> <<"QUOTE_MINIMAL">>,
     decimal |-> <<".">>, encoding |-> <<"utf-8">>, header |-> PyTrue, missing |-> EmptyStr,
     geometry_format |-> <<"WKT">>]

_normalize_csv_config(lang, cfg_obj) ==
    LET cfg_ == DictOf(cfg_obj)
        \* out = dict(cfg), then out.setdefault(key, default) key by key
        out  == [k \in DOMAIN cfg_ \cup DOMAIN CsvDefaults |->
                    IF k \in DOMAIN cfg_ THEN cfg_[k] ELSE CsvDefaults[k]]
    IN  IF ~IsStrValue(out["delimiter"]) \/ Len(out["delimiter"]) # 1
        THEN [exc |-> Localized(lang, ERR_DELIMITER_INVALID, "ValueError"), ret |-> EmptyDict]
        ELSE IF ~IsStrValue(out["quotechar"]) \/ Len(out["quotechar"]) # 1
        THEN [exc |-> Localized(lang, ERR_QUOTECHAR_INVALID, "ValueError"), ret |-> EmptyDict]
        ELSE IF out["quoting"] \notin {<<"QUOTE_MINIMAL">>, <<"QUOTE_ALL">>,
                                       <<"QUOTE_NONNUMERIC">>, <<"QUOTE_NONE">>}
        THEN [exc |-> Localized(lang, ERR_QUOTING_INVALID, "ValueError"), ret |-> EmptyDict]
        ELSE IF out["decimal"] \notin {<<".">>, <<",">>}
        THEN [exc |-> Localized(lang, ERR_DECIMAL_INVALID, "ValueError"), ret |-> EmptyDict]
        ELSE [exc |-> "none", ret |-> out]

\* the loop of load_queries_from_file over data.items(), from item i on
RECURSIVE QueryLoop(_, _, _, _, _, _)
QueryLoop(lang, self, items, i, overwrite, count) ==
    IF i > Len(items) THEN [exc |-> "none", ret |-> count, self |-> self]
    ELSE IF items[i][2].t # "string"
    THEN Raised(Localized(lang, ERR_INVALID_QUERY_ENTRY, "ValueError"), self)
    ELSE IF items[i][1] \notin DOMAIN self._queries \/ overwrite
    THEN QueryLoop(lang, [self EXCEPT !._queries = Put(@, items[i][1], items[i][2].s)],
                   items, i + 1, overwrite, count + 1)
    ELSE QueryLoop(lang, self, items, i + 1, overwrite, count)

load_queries_from_file(lang, self, file, overwrite) ==
    LET data_ == _load_json_dict(lang, file)
    IN  IF data_.exc # "none" THEN Raised(data_.exc, self)
        ELSE QueryLoop(lang, self, data_.ret.items, 1, overwrite, 0)

\* the loop of load_csv_configs_from_file over data.items(), from item i on
RECURSIVE CsvConfigLoop(_, _, _, _, _, _)
CsvConfigLoop(lang, self, items, i, overwrite, count) ==
    IF i > Len(items) THEN [exc |-> "none", ret |-> count, self |-> self]
    ELSE IF ~IsDict(items[i][2])
    THEN Raised(Localized(lang, ERR_INVALID_CSV_ENTRY, "ValueError"), self)
    ELSE IF items[i][1] \notin DOMAIN self._csv_configs \/ overwrite
    THEN LET n == _normalize_csv_config(lang, items[i][2])
         IN  IF n.exc # "none" THEN Raised(n.exc, self)
             ELSE CsvConfigLoop(lang, [self EXCEPT !._csv_configs = Put(@, items[i][1], n.ret)],
                                items, i + 1, overwrite, count + 1)
    ELSE CsvConfigLoop(lang, self, items, i + 1, overwrite, count)

load_csv_configs_from_file(lang, self, file, overwrite) ==
    LET data_ == _load_json_dict(lang, file)
    IN  IF data_.exc # "none" THEN Raised(data_.exc, self)
        ELSE CsvConfigLoop(lang, self, data_.ret.items, 1, overwrite, 0)

\* CsvReporterConfig.from_files: the exception raised, or the instance built
from_files(lang, queries_file, csv_configs_file, overwrite) ==
    LET q == load_queries_from_file(lang, CsvReporterConfig, queries_file, overwrite)
    IN  IF q.exc # "none" THEN [exc |-> q.exc, ret |-> NoConfig]
        ELSE LET c == load_csv_configs_from_file(lang, q.self, csv_configs_file, overwrite)
             IN  IF c.exc # "none" THEN [exc |-> c.exc, ret |-> NoConfig]
                 ELSE [exc |-> "none", ret |-> c.self]

\* admin._verify_token: the HTTP status of the exception raised, 0 when none
_verify_token(x_admin_token, ADMIN_TOKEN) ==
    IF ~Truthy(ADMIN_TOKEN) THEN 503
    ELSE IF ~Truthy(x_admin_token) \/ x_admin_token # ADMIN_TOKEN THEN 401
    ELSE 0

\* deps.get_config: HTTP 500 when no config is loaded, else state.cfg
get_config(state_cfg) ==
    IF state_cfg = NoConfig THEN [status |-> 500, ret |-> NoConfig]
    ELSE [status |-> 0, ret |-> state_cfg]

\* the methods class CsvReporterConfig defines
CsvReporterConfigMethods ==
    {"__init__", "set_query", "get_query", "list_query_labels", "set_csv_config",
     "get_csv_config", "list_csv_config_labels", "load_queries_from_file",
     "load_csv_configs_from_file", "from_files", "_load_json_dict",
     "_normalize_csv_config"}

ERR_UNKNOWN_QUERY_LABEL      == <<"ERR_UNKNOWN_QUERY_LABEL">>
ERR_UNKNOWN_CSV_CONFIG_LABEL == <<"ERR_UNKNOWN_CSV_CONFIG_LABEL">>

get_query(lang, self, label) ==
    IF label \in DOMAIN self._queries
    THEN [exc |-> "none", ret |-> self._queries[label]]
    ELSE [exc |-> Localized(lang, ERR_UNKNOWN_QUERY_LABEL, "KeyError"), ret |-> None]

\* get_csv_config: the exception it raises, "none" when the label is known
get_csv_config(lang, self, label) ==
    IF label \in DOMAIN self._csv_configs THEN "none"
    ELSE Localized(lang, ERR_UNKNOWN_CSV_CONFIG_LABEL, "KeyError")

\* CsvReporter.run on an adapter whose execute returns and an out_path that
\* can be written: the statements run so far and the files written so far
\* become executed and written
CsvReporter_run(lang, config, select_label, out_path, config_label, ran, files) ==
    LET sql == get_query(lang, config, select_label)
    IN  IF sql.exc # "none"
        THEN [exc |-> sql.exc, ret |-> None, executed |-> ran, written |-> files]
        ELSE IF get_csv_config(lang, config, config_label) # "none"
        THEN [exc |-> get_csv_config(lang, config, config_label), ret |-> None,
              executed |-> ran, written |-> files]
        ELSE [exc |-> "none", ret |-> out_path, executed |-> ran \cup {sql.ret},
              written |-> files \cup {out_path}]

\* CsvService.run_export: self._cfg.has_query and self._cfg.has_csv_config
\* are looked up on the CsvReporterConfig object, which raises AttributeError
\* for a name the class does not define
run_export(lang, config, select_label, csv_config_label, out_path, ran, files) ==
    IF "has_query" \notin CsvReporterConfigMethods
    THEN [exc |-> "AttributeError", ret |-> None, executed |-> ran, written |-> files]
    ELSE IF "has_csv_config" \notin CsvReporterConfigMethods
    THEN [exc |-> "AttributeError", ret |-> None, executed |-> ran, written |-> files]
    ELSE CsvReporter_run(lang, config, select_label, out_path, csv_config_label, ran, files)

-----------------------------------------------------------------------------
(* Inputs *)

EN == <<"E", "N">>
DE == <<"D", "E">>

T1 == <<"t1">>
T2 == <<"Hello ", "{name}">>

LabelA == <<"A">>
LabelB == <<"B">>

FR == <<"F", "R">>

Dflt == <<"dflt">>

GLOBAL_DB     == <<"GLOBAL", ".", "DB">>
GLOBAL_DB_ORA == <<"GLOBAL", ".", "DB", ".", "ORA">>
GLOBALIZATION == <<"GLOBAL", "IZATION">>

\* the text the stores of the query specifications hold for a key
TextOf(dom, lang) == dom \o <<":">> \o lang

\* the store holding TextOf under every (domain, label, language) of T
StoreFrom(T) ==
    [dom \in {k[1] : k \in T} |->
        [label \in {k[2] : k \in {x \in T : x[1] = dom}} |->
            [lang \in {k[3] : k \in {x \in T : x[1] = dom /\ x[2] = label}} |->
                TextOf(dom, lang)]]]

SmallSubsets(S) == {E \in SUBSET S : Cardinality(E) <= MaxEntries}

\* get_text is called on stores over these keys
ResolveKeys ==
    ({ROOT_DOMAIN, GLOBAL_DB, GLOBAL_DB_ORA} \X {LabelA} \X {EN, DE, FR})
    \cup {<<GLOBALIZATION, LabelA, EN>>}

ResolveLabels    == {EmptyStr, LabelA, LabelB}
ResolveLangs     == {None, <<"e", "n">>, DE, FR}
ResolveFallbacks == {None, <<"d", "e">>, FR}
ResolveDefaults  == {None, EmptyStr, Dflt}
ResolveDomains   == {None, <<" ">> \o GLOBAL_DB_ORA \o <<" ">>, GLOBALIZATION}

\* list_labels is called on stores over these keys
ListKeys ==
    {ROOT_DOMAIN, GLOBAL_DB, GLOBAL_DB_ORA, GLOBALIZATION} \X {LabelA, LabelB, <<"a">>} \X {EN}

ListDomains == {None, EmptyStr, ROOT_DOMAIN, <<" ">> \o GLOBAL_DB \o <<" ">>, GLOBAL_DB_ORA}

\* templates, defaults and substitutions of fmt: plain text, a named field,
\* a single "{", a positional "{}", an escaped "{{"
Templates ==
    {T1, T2, <<"Hello ", "{">>, <<"{}">>, <<"{{", "{name}">>, <<"{name}", " ", "{name}">>}

FmtDefaults == {None, Dflt, <<"dflt ", "{name}">>}
FmtKwargs   == {<<>>, [name |-> "Ann"], [other |-> "x"]}

\* the files at QUERIES_PATH and CSV_CONFIGS_PATH
Q1 == <<"select 1">>
Q2 == <<"select 2">>

QueryFiles ==
    [missing   |-> MissingFile,
     list      |-> JsonFile(JArr(<<>>)),
     \* {"A": "select 1"}
     one       |-> JsonFile(JObj(<< <<LabelA, JStr(Q1)>> >>)),
     \* {"A": "select 2", "B": "select 1"}
     two       |-> JsonFile(JObj(<< <<LabelA, JStr(Q2)>>, <<LabelB, JStr(Q1)>> >>)),
     \* {"B": "select 2", "A": 5}
     bad_entry |-> JsonFile(JObj(<< <<LabelB, JStr(Q2)>>, <<LabelA, JNum>> >>))]

CsvConfigFiles ==
    [malformed |-> MalformedFile,
     \* {"A": {}}
     defaults  |-> JsonFile(JObj(<< <<LabelA, JObj(<<>>)>> >>)),
     \* {"A": {"delimiter": ","}, "B": {"decimal": ",", "header": true}}
     comma     |-> JsonFile(JObj(<<
         <<LabelA, JObj(<< <<"delimiter", JStr(<<",">>)>> >>)>>,
         <<LabelB, JObj(<< <<"decimal", JStr(<<",">>)>>, <<"header", JTrue>> >>)>> >>)),
     \* {"B": {}, "A": {"delimiter": ";;"}}
     bad_delim |-> JsonFile(JObj(<<
         <<LabelB, JObj(<<>>)>>,
         <<LabelA, JObj(<< <<"delimiter", JStr(<<";", ";">>)>> >>)>> >>)),
     \* {"A": true}
     bad_entry |-> JsonFile(JObj(<< <<LabelA, JTrue>> >>))]

\* the configurations on_startup loaded: from {"A": "select 1"} or from
\* {"A": "select 2", "B": "select 1"}, and from {"A": {}}
StartupConfigs ==
    {[_queries |-> q, _csv_configs |-> Put(EmptyDict, LabelA, CsvDefaults)] :
        q \in {Put(EmptyDict, LabelA, Q1), Put(Put(EmptyDict, LabelA, Q2), LabelB, Q1)}}

\* the admin token configured on the server and the one a request carries
Secret == <<"s3cret">>
TokenPairs == {<<None, Secret>>, <<Secret, None>>, <<Secret, <<"guess">> >>, <<Secret, Secret>>}

\* the message labels the language file of the server holds
MessageKeys == {ROOT_DOMAIN} \X {ERR_FILE_NOT_FOUND, ERR_DELIMITER_INVALID} \X {EN}

\* two threads set the context to these domains, over stores on these keys
ContextKeys == {ROOT_DOMAIN, GLOBAL_DB, GLOBAL_DB_ORA} \X {LabelA} \X {EN, DE}
ContextArgs == {None, GLOBAL_DB, <<" ">> \o GLOBAL_DB_ORA \o <<" ">>}

\* a reload is started on stores over these keys, from these files
ReloadKeys  == {ROOT_DOMAIN, GLOBAL_DB} \X {LabelA, LabelB} \X {EN, DE}
ReloadFiles == {"missing", "legacy_obj", "legacy_list"}

\* arguments of has_text
HasLangs   == {None, EmptyStr, <<"e", "n">>, DE, FR}
HasDomains == {None, EmptyStr, <<" ">> \o GLOBAL_DB_ORA \o <<" ">>, GLOBALIZATION}

\* list_languages is called on stores over these keys, for these labels
LangKeys ==
    {ROOT_DOMAIN, GLOBAL_DB, GLOBAL_DB_ORA, GLOBALIZATION} \X {LabelA, LabelB} \X {EN, DE}

LangLabels == {None, EmptyStr, LabelA}

DomainSymbols == {"GLOBAL", "DB", ".", " "}

RECURSIVE StringsUpTo(_, _)
StringsUpTo(alphabet, n) ==
    IF n = 0 THEN {<<>>}
    ELSE LET shorter == StringsUpTo(alphabet, n - 1)
         IN  shorter \cup {Append(s, c) : s \in shorter, c \in alphabet}

\* every domain string of at most MaxDomLen symbols, and None
DomainStrings == StringsUpTo(DomainSymbols, MaxDomLen) \cup {None}

\* arguments of the catalog's mutators
LabelArgs  == {EmptyStr, LabelA}
LangArgs   == {EmptyStr, <<"e", "n">>, DE}
TextArgs   == {T1, T2}
DomainArgs == {None, <<" ">>, <<" ", "GLOBAL", ".", "DB", " ">>}

\* arguments of the constructor
DefaultLangArgs == {EmptyStr, <<"d", "e">>}
AllowedArgs     == {NoAllowList, {<<"e", "n">>}}

\* the files of the model, by name
Files ==
    [missing   |-> MissingFile,
     malformed |-> MalformedFile,
     scalar    |-> JsonFile(JNum),
     \* {"A": {"en": "t2"}, "B": {"DE": "t1"}}
     legacy_obj |-> JsonFile(JObj(<<
         <<LabelA, JObj(<< <<<<"e", "n">>, JStr(T2)>> >>)>>,
         <<LabelB, JObj(<< <<DE, JStr(T1)>> >>)>> >>)),
     \* [{"label": "B", "lang": "EN", "text": "t2"}, {"label": "A", "lang": "DE"}]
     legacy_list |-> JsonFile(JArr(<<
         JObj(<< <<<<"label">>, JStr(LabelB)>>, <<<<"lang">>, JStr(EN)>>,
                 <<<<"text">>, JStr(T2)>> >>),
         JObj(<< <<<<"label">>, JStr(LabelA)>>, <<<<"lang">>, JStr(DE)>> >>) >>)),
     \* {" GLOBAL.DB ": {"A": {"en": "t1"}}, "GLOBAL.DB": {"A": {"EN": "t2"}},
     \*  "": {"B": {"EN": "t1"}}}
     domains |-> JsonFile(JObj(<<
         << <<" ", "GLOBAL", ".", "DB", " ">>,
            JObj(<< <<LabelA, JObj(<< <<<<"e", "n">>, JStr(T1)>> >>)>> >>) >>,
         << GLOBAL_DB,
            JObj(<< <<LabelA, JObj(<< <<EN, JStr(T2)>> >>)>> >>) >>,
         << EmptyStr,
            JObj(<< <<LabelB, JObj(<< <<EN, JStr(T1)>> >>)>> >>) >> >>)),
     \* {"A": "t2", "B": "t1"}
     single_obj |-> JsonFile(JObj(<< <<LabelA, JStr(T2)>>, <<LabelB, JStr(T1)>> >>)),
     \* [{"label": "A", "text": "t1"}, {"label": "", "text": "t1"}]
     single_list |-> JsonFile(JArr(<<
         JObj(<< <<<<"label">>, JStr(LabelA)>>, <<<<"text">>, JStr(T1)>> >>),
         JObj(<< <<<<"label">>, JStr(EmptyStr)>>, <<<<"text">>, JStr(T1)>> >>) >>))]

\* arguments of the service's calls
InitFiles       == {"missing", "legacy_obj", "domains"}
InitContexts    == {None, <<" ">> \o GLOBAL_DB \o <<" ">>}
ServiceContexts == {None, ROOT_DOMAIN, <<" ">> \o GLOBAL_DB \o <<" ">>}
ServiceLabels   == {EmptyStr, LabelA}
ServiceLangs    == {None, DE}
ServiceDomains  == {None, EmptyStr, ROOT_DOMAIN, <<" ">> \o GLOBAL_DB \o <<" ">>}
ServiceKwargs   == {<<>>, [name |-> "Ann"]}
ServiceDefaultLangs == {EmptyStr, DE}
AddLegacyFiles  == {"missing", "legacy_obj"}
AddDomainFiles  == {"scalar", "domains"}
AddSingleFiles  == {"single_obj", "single_list"}
AddSingleDomains == {None, <<" ">> \o GLOBAL_DB \o <<" ">>}

\* the files each loader is given
LegacyFiles == {"missing", "malformed", "scalar", "legacy_obj", "legacy_list", "domains"}
DomainFiles == {"missing", "scalar", "domains", "legacy_obj"}
SingleFiles == {"malformed", "single_obj", "single_list", "legacy_obj"}

-----------------------------------------------------------------------------
(* Initial state: a freshly constructed LanguageCatalog; the service has   *)
(* not been initialised.                                                   *)

NoCall == [op |-> "none"]

\* the server module globals at import: AppState.cfg = None, JobManager()
\* with no job, and nothing run against the database or written yet
ServerDown ==
    /\ cfg = [none |-> TRUE]
    /\ jobs = EmptyDict
    /\ executed = {}
    /\ written = {}

Self == Catalog(data, default_lang, allowed, context_domain)

\* one more mutator call, and the catalog object becomes obj
Becomes(obj) ==
    /\ ncalls < MaxCalls
    /\ ncalls' = ncalls + 1
    /\ data' = obj._data
    /\ default_lang' = obj._default_lang
    /\ allowed' = obj._allowed
    /\ context_domain' = obj._context_domain

\* a catalog object is in place
Holds(obj) ==
    /\ data = obj._data
    /\ default_lang = obj._default_lang
    /\ allowed = obj._allowed
    /\ context_domain = obj._context_domain

Init ==
    /\ \E dl \in DefaultLangArgs, al \in AllowedArgs : Holds(__init__(dl, al))
    /\ initialized = FALSE
    /\ ctx_req = None
    /\ instance = 0
    /\ last = NoCall
    /\ ncalls = 0
    /\ ServerDown

-----------------------------------------------------------------------------
(* Calls of the catalog's mutators *)

SetText ==
    \E label \in LabelArgs, lang \in LangArgs, text \in TextArgs,
       overwrite \in BOOLEAN, domain \in DomainArgs :
        LET r == set_text(Self, label, lang, text, overwrite, domain)
        IN  /\ Becomes(r.self)
            /\ last' = [op |-> "set_text", label |-> label, lang |-> lang, text |-> text,
                        overwrite |-> overwrite, domain |-> domain, exc |-> r.exc]
            /\ UNCHANGED service
            /\ UNCHANGED server

SetContext ==
    \E domain \in DomainArgs :
        LET r == set_context(Self, domain)
        IN  /\ Becomes(r.self)
            /\ last' = [op |-> "set_context", domain |-> domain, exc |-> r.exc]
            /\ UNCHANGED service
            /\ UNCHANGED server

SetDefaultLang ==
    \E lang \in LangArgs :
        LET r == set_default_lang(Self, lang)
        IN  /\ Becomes(r.self)
            /\ last' = [op |-> "set_default_lang", lang |-> lang, exc |-> r.exc]
            /\ UNCHANGED service
            /\ UNCHANGED server

LoadFromFile ==
    \E f \in LegacyFiles, overwrite \in BOOLEAN :
        LET r == load_from_file(Self, Files[f], overwrite)
        IN  /\ Becomes(r.self)
            /\ last' = [op |-> "load_from_file", file |-> f, overwrite |-> overwrite,
                        exc |-> r.exc, ret |-> r.ret]
            /\ UNCHANGED service
            /\ UNCHANGED server

AddFile ==
    \E f \in LegacyFiles, overwrite \in BOOLEAN :
        LET r == add_file(Self, Files[f], overwrite)
        IN  /\ Becomes(r.self)
            /\ last' = [op |-> "add_file", file |-> f, overwrite |-> overwrite,
                        exc |-> r.exc, ret |-> r.ret]
            /\ UNCHANGED service
            /\ UNCHANGED server

LoadDomainsFromFile ==
    \E f \in DomainFiles, overwrite \in BOOLEAN :
        LET r == load_domains_from_file(Self, Files[f], overwrite)
        IN  /\ Becomes(r.self)
            /\ last' = [op |-> "load_domains_from_file", file |-> f, overwrite |-> overwrite,
                        exc |-> r.exc, ret |-> r.ret]
            /\ UNCHANGED service
            /\ UNCHANGED server

LoadLanguageOnlyFromFile ==
    \E lang \in LangArgs, f \in SingleFiles, overwrite \in BOOLEAN, domain \in DomainArgs :
        LET r == load_language_only_from_file(Self, lang, Files[f], overwrite, domain)
        IN  /\ Becomes(r.self)
            /\ last' = [op |-> "load_language_only_from_file", lang |-> lang, file |-> f,
                        overwrite |-> overwrite, domain |-> domain,
                        exc |-> r.exc, ret |-> r.ret]
            /\ UNCHANGED service
            /\ UNCHANGED server

ReloadFromFile ==
    \E f \in LegacyFiles :
        LET r == reload_from_file(Self, Files[f])
        IN  /\ Becomes(r.self)
            /\ last' = [op |-> "reload_from_file", file |-> f, exc |-> r.exc, ret |-> r.ret]
            /\ UNCHANGED service
            /\ UNCHANGED server

Next ==
    \/ SetText
    \/ SetContext
    \/ SetDefaultLang
    \/ LoadFromFile
    \/ AddFile
    \/ LoadDomainsFromFile
    \/ LoadLanguageOnlyFromFile
    \/ ReloadFromFile

Spec == Init /\ [][Next]_vars

-----------------------------------------------------------------------------
(* Calls of the service *)

\* init_language keeping the context of the instance it replaces when it is
\* given none
InitLanguage_keep_context ==
    \E f \in InitFiles, dl \in DefaultLangArgs, al \in AllowedArgs, overwrite \in BOOLEAN,
       context \in InitContexts, domain_aware \in BOOLEAN :
        \E r \in {init_language(Files[f], dl, al, overwrite, context, domain_aware)} :
            /\ ncalls < MaxCalls
            /\ ncalls' = ncalls + 1
            /\ IF r.assigned
               THEN /\ data' = r.self._data
                    /\ default_lang' = r.self._default_lang
                    /\ allowed' = r.self._allowed
                    /\ context_domain' = IF context # None THEN r.self._context_domain
                                          ELSE context_domain
                    /\ initialized' = TRUE
                    /\ ctx_req' = context
                    /\ instance' = instance + 1
               ELSE UNCHANGED <<catalog, service>>
            /\ last' = [op |-> "init_language", file |-> f, default_lang |-> dl,
                        allowed_langs |-> al, overwrite |-> overwrite, context |-> context,
                        domain_aware |-> domain_aware, exc |-> r.exc]
            /\ UNCHANGED server

InitLanguage ==
    \E f \in InitFiles, dl \in DefaultLangArgs, al \in AllowedArgs, overwrite \in BOOLEAN,
       context \in InitContexts, domain_aware \in BOOLEAN :
        \E r \in {init_language(Files[f], dl, al, overwrite, context, domain_aware)} :
            /\ ncalls < MaxCalls
            /\ ncalls' = ncalls + 1
            /\ IF r.assigned
               THEN /\ data' = r.self._data
                    /\ default_lang' = r.self._default_lang
                    /\ allowed' = r.self._allowed
                    /\ context_domain' = r.self._context_domain
                    /\ initialized' = TRUE
                    /\ ctx_req' = context
                    /\ instance' = instance + 1
               ELSE UNCHANGED <<catalog, service>>
            /\ last' = [op |-> "init_language", file |-> f, default_lang |-> dl,
                        allowed_langs |-> al, overwrite |-> overwrite, context |-> context,
                        domain_aware |-> domain_aware, exc |-> r.exc]
            /\ UNCHANGED server

SetLanguageContext ==
    \E domain \in ServiceContexts :
        LET r == set_language_context(initialized, Self, domain)
        IN  /\ Becomes(r.self)
            /\ ctx_req' = IF r.exc = "none" THEN domain ELSE ctx_req
            /\ last' = [op |-> "set_language_context", domain |-> domain, exc |-> r.exc]
            /\ UNCHANGED <<initialized, instance>>
            /\ UNCHANGED server

Text ==
    \E label \in ServiceLabels, lang \in ServiceLangs, domain \in ServiceDomains :
        LET r == service_text(initialized, Self, label, lang, domain, None, None)
        IN  /\ last' = [op |-> "text", label |-> label, lang |-> lang, domain |-> domain,
                        default |-> None, fallback_lang |-> None, kwargs |-> <<>>,
                        exc |-> r.exc, ret |-> r.ret]
            /\ UNCHANGED <<catalog, service, ncalls>>
            /\ UNCHANGED server

Fmt ==
    \E label \in ServiceLabels, lang \in ServiceLangs, domain \in ServiceDomains,
       kwargs \in ServiceKwargs :
        LET r == service_fmt(initialized, Self, label, lang, domain, None, None, kwargs)
        IN  /\ last' = [op |-> "fmt", label |-> label, lang |-> lang, domain |-> domain,
                        default |-> None, fallback_lang |-> None, kwargs |-> kwargs,
                        exc |-> r.exc, ret |-> r.ret]
            /\ UNCHANGED <<catalog, service, ncalls>>
            /\ UNCHANGED server

GetLanguage ==
    /\ last' = [op |-> "get_language", exc |-> get_language(initialized),
                ret |-> IF initialized THEN instance ELSE 0]
    /\ UNCHANGED <<catalog, service, ncalls>>
    /\ UNCHANGED server

SetDefaultLanguage ==
    \E lang \in ServiceDefaultLangs :
        \E r \in {set_default_language(initialized, Self, lang)} :
            /\ Becomes(r.self)
            /\ last' = [op |-> "set_default_language", lang |-> lang, exc |-> r.exc]
            /\ UNCHANGED service
            /\ UNCHANGED server

AddLanguageFile ==
    \E f \in AddLegacyFiles, overwrite \in BOOLEAN :
        \E r \in {add_language_file(initialized, Self, Files[f], overwrite)} :
            /\ Becomes(r.self)
            /\ last' = [op |-> "add_language_file", file |-> f, overwrite |-> overwrite,
                        exc |-> r.exc, ret |-> r.ret]
            /\ UNCHANGED service
            /\ UNCHANGED server

AddDomainFile ==
    \E f \in AddDomainFiles, overwrite \in BOOLEAN :
        \E r \in {add_domain_file(initialized, Self, Files[f], overwrite)} :
            /\ Becomes(r.self)
            /\ last' = [op |-> "add_domain_file", file |-> f, overwrite |-> overwrite,
                        exc |-> r.exc, ret |-> r.ret]
            /\ UNCHANGED service
            /\ UNCHANGED server

AddSingleLanguageFile ==
    \E f \in AddSingleFiles, overwrite \in BOOLEAN, domain \in AddSingleDomains :
        \E r \in {add_single_language_file(initialized, Self, <<"e", "n">>, Files[f],
                                           overwrite, domain)} :
            /\ Becomes(r.self)
            /\ last' = [op |-> "add_single_language_file", lang |-> <<"e", "n">>, file |-> f,
                        overwrite |-> overwrite, domain |-> domain,
                        exc |-> r.exc, ret |-> r.ret]
            /\ UNCHANGED service
            /\ UNCHANGED server

NextService ==
    \/ InitLanguage
    \/ SetLanguageContext
    \/ Text
    \/ Fmt
    \/ GetLanguage
    \/ SetDefaultLanguage
    \/ AddLanguageFile
    \/ AddDomainFile
    \/ AddSingleLanguageFile

SpecService == Init /\ [][NextService]_vars

-----------------------------------------------------------------------------
(* Pure functions: the initial state holds the call to make, the action    *)
(* makes it.                                                               *)

InitChain ==
    /\ Holds(__init__(EmptyStr, NoAllowList))
    /\ initialized = FALSE
    /\ ctx_req = None
    /\ instance = 0
    /\ ncalls = 0
    /\ ServerDown
    /\ \E d \in DomainStrings :
          last = [op |-> "_domain_chain", done |-> FALSE, domain |-> d, ret |-> <<>>]

DomainChainCall ==
    /\ last.op = "_domain_chain" /\ ~last.done
    /\ last' = [last EXCEPT !.done = TRUE, !.ret = _domain_chain(last.domain)]
    /\ UNCHANGED <<catalog, service, ncalls>>
    /\ UNCHANGED server

NextChain == DomainChainCall

SpecChain == InitChain /\ [][NextChain]_vars

InitResolve ==
    /\ \E al \in {NoAllowList, {EN, DE}}, dl \in {EN, DE, FR}, E \in SmallSubsets(ResolveKeys) :
          /\ al # NoAllowList => \A k \in E : k[3] \in al
          /\ Holds(Catalog(StoreFrom(E), dl, al, GLOBAL_DB))
    /\ initialized = FALSE
    /\ ctx_req = None
    /\ instance = 0
    /\ ncalls = 0
    /\ ServerDown
    /\ \E label \in ResolveLabels, lang \in ResolveLangs, fb \in ResolveFallbacks,
          default \in ResolveDefaults, domain \in ResolveDomains :
          last = [op |-> "get_text", done |-> FALSE, label |-> label, lang |-> lang,
                  fallback_lang |-> fb, default |-> default, domain |-> domain,
                  exc |-> "none", ret |-> None, chain |-> <<>>]

GetText ==
    /\ last.op = "get_text" /\ ~last.done
    /\ LET r == get_text(Self, last.label, last.lang, last.fallback_lang, last.default,
                         last.domain)
       IN  last' = [last EXCEPT !.done = TRUE, !.exc = r.exc, !.ret = r.ret,
                                !.chain = r.chain]
    /\ UNCHANGED <<catalog, service, ncalls>>
    /\ UNCHANGED server

NextResolve == GetText

SpecResolve == InitResolve /\ [][NextResolve]_vars

InitList ==
    /\ \E E \in SmallSubsets(ListKeys) : Holds(Catalog(StoreFrom(E), EN, NoAllowList, GLOBAL_DB))
    /\ initialized = FALSE
    /\ ctx_req = None
    /\ instance = 0
    /\ ncalls = 0
    /\ ServerDown
    /\ \E domain \in ListDomains, recursive \in BOOLEAN :
          last = [op |-> "list_labels", done |-> FALSE, domain |-> domain,
                  recursive |-> recursive, ret |-> <<>>]

ListLabels ==
    /\ last.op = "list_labels" /\ ~last.done
    /\ last' = [last EXCEPT !.done = TRUE,
                            !.ret = list_labels(Self, last.domain, last.recursive)]
    /\ UNCHANGED <<catalog, service, ncalls>>
    /\ UNCHANGED server

NextList == ListLabels

SpecList == InitList /\ [][NextList]_vars

InitFmt ==
    /\ \E al \in {NoAllowList, {EN}}, t \in Templates :
          Holds(Catalog(Put(EmptyDict, ROOT_DOMAIN, Put(EmptyDict, LabelA, Put(EmptyDict, EN, t))),
                        EN, al, ROOT_DOMAIN))
    /\ initialized = FALSE
    /\ ctx_req = None
    /\ instance = 0
    /\ ncalls = 0
    /\ ServerDown
    /\ \E label \in ResolveLabels, lang \in {None, FR}, default \in FmtDefaults,
          kwargs \in FmtKwargs :
          last = [op |-> "LanguageCatalog.fmt", done |-> FALSE, label |-> label, lang |-> lang,
                  default |-> default, kwargs |-> kwargs, exc |-> "none", ret |-> None]

CatalogFmt ==
    /\ last.op = "LanguageCatalog.fmt" /\ ~last.done
    /\ LET r == fmt(Self, last.label, last.lang, None, last.default, None, last.kwargs)
       IN  last' = [last EXCEPT !.done = TRUE, !.exc = r.exc, !.ret = r.ret]
    /\ UNCHANGED <<catalog, service, ncalls>>
    /\ UNCHANGED server

NextFmt == CatalogFmt

SpecFmt == InitFmt /\ [][NextFmt]_vars

InitHas ==
    /\ \E al \in {NoAllowList, {EN, DE}}, E \in SmallSubsets(ResolveKeys) :
          /\ al # NoAllowList => \A k \in E : k[3] \in al
          /\ Holds(Catalog(StoreFrom(E), EN, al, GLOBAL_DB))
    /\ initialized = FALSE
    /\ ctx_req = None
    /\ instance = 0
    /\ ncalls = 0
    /\ ServerDown
    /\ \E label \in ResolveLabels, lang \in HasLangs, domain \in HasDomains,
          recursive \in BOOLEAN :
          last = [op |-> "has_text", done |-> FALSE, label |-> label, lang |-> lang,
                  domain |-> domain, recursive |-> recursive, exc |-> "none", ret |-> FALSE]

HasText ==
    /\ last.op = "has_text" /\ ~last.done
    /\ LET r == has_text(Self, last.label, last.lang, last.domain, last.recursive)
       IN  last' = [last EXCEPT !.done = TRUE, !.exc = r.exc, !.ret = r.ret]
    /\ UNCHANGED <<catalog, service, ncalls>>
    /\ UNCHANGED server

NextHas == HasText

SpecHas == InitHas /\ [][NextHas]_vars

InitLangs ==
    /\ \E E \in SmallSubsets(LangKeys) : Holds(Catalog(StoreFrom(E), EN, NoAllowList, GLOBAL_DB))
    /\ initialized = FALSE
    /\ ctx_req = None
    /\ instance = 0
    /\ ncalls = 0
    /\ ServerDown
    /\ \E label \in LangLabels, domain \in ListDomains, recursive \in BOOLEAN :
          last = [op |-> "list_languages", done |-> FALSE, label |-> label,
                  domain |-> domain, recursive |-> recursive, ret |-> <<>>]

ListLanguages ==
    /\ last.op = "list_languages" /\ ~last.done
    /\ last' = [last EXCEPT !.done = TRUE,
                            !.ret = list_languages(Self, last.label, last.domain,
                                                   last.recursive)]
    /\ UNCHANGED <<catalog, service, ncalls>>
    /\ UNCHANGED server

NextLangs == ListLanguages

SpecLangs == InitLangs /\ [][NextLangs]_vars

-----------------------------------------------------------------------------
(* reload_from_file running in one thread, statement by statement, while   *)
(* another thread calls get_text on the same catalog.  No lock is taken by *)
(* either, so the reader may run between any two statements of the reload. *)
(* last holds the position of the reload (pc, i, k, count), the store      *)
(* before it (old) and the reader's call (read).                           *)

InitReload ==
    /\ \E E \in SmallSubsets(ReloadKeys) : Holds(Catalog(StoreFrom(E), EN, NoAllowList, ROOT_DOMAIN))
    /\ initialized = FALSE
    /\ ctx_req = None
    /\ instance = 0
    /\ ncalls = 0
    /\ ServerDown
    /\ \E f \in ReloadFiles, label \in {LabelA, LabelB}, lang \in {<<"e", "n">>, DE},
          domain \in {None, GLOBAL_DB} :
          last = [op |-> "reload_from_file", file |-> f, pc |-> "clear", i |-> 1, k |-> 1,
                  count |-> 0, exc |-> "none", old |-> data,
                  read |-> [done |-> FALSE, label |-> label, lang |-> lang,
                            domain |-> domain, exc |-> "none", ret |-> None]]

Reloading(pc) == last.op = "reload_from_file" /\ last.pc = pc

\* reload_from_file: self._data.clear()
ReloadClear ==
    /\ Reloading("clear")
    /\ data' = EmptyDict
    /\ last' = [last EXCEPT !.pc = "open"]
    /\ UNCHANGED <<default_lang, allowed, context_domain, service, ncalls>>
    /\ UNCHANGED server

\* load_from_file: data = self._load_json(file_path) and the test of its shape
ReloadOpen ==
    /\ Reloading("open")
    /\ LET j == _load_json(Files[last.file])
       IN  last' = IF j.exc # "none" THEN [last EXCEPT !.pc = "done", !.exc = j.exc]
                   ELSE IF IsDict(j.ret) THEN [last EXCEPT !.pc = "object"]
                   ELSE IF IsList(j.ret) THEN [last EXCEPT !.pc = "list"]
                   ELSE [last EXCEPT !.pc = "done", !.exc = "ValueError"]
    /\ UNCHANGED <<catalog, service, ncalls>>
    /\ UNCHANGED server

\* load_from_file: one pass of the loops over data.items() and
\* mapping.items(), up to and including one set_text
ReloadObjectStep ==
    /\ Reloading("object")
    /\ LET items == Files[last.file].value.items
           i == last.i
           k == last.k
       IN  IF i > Len(items)
           THEN last' = [last EXCEPT !.pc = "done"] /\ UNCHANGED catalog
           ELSE IF ~IsDict(items[i][2])
           THEN last' = [last EXCEPT !.pc = "done", !.exc = "ValueError"] /\ UNCHANGED catalog
           ELSE IF k > Len(items[i][2].items)
           THEN last' = [last EXCEPT !.i = i + 1, !.k = 1] /\ UNCHANGED catalog
           ELSE \E r \in {set_text(Self, items[i][1], items[i][2].items[k][1],
                                    PyStr(items[i][2].items[k][2]), TRUE, ROOT_DOMAIN)} :
                  /\ data' = r.self._data
                  /\ UNCHANGED <<default_lang, allowed, context_domain>>
                  /\ last' = IF r.exc # "none" THEN [last EXCEPT !.pc = "done", !.exc = r.exc]
                             ELSE [last EXCEPT !.k = k + 1, !.count = last.count + 1]
    /\ UNCHANGED <<service, ncalls>>
    /\ UNCHANGED server

\* load_from_file: one pass of the loop over the records of a list
ReloadListStep ==
    /\ Reloading("list")
    /\ LET recs == Files[last.file].value.items
           i == last.i
       IN  IF i > Len(recs)
           THEN last' = [last EXCEPT !.pc = "done"] /\ UNCHANGED catalog
           ELSE IF \/ ~IsDict(recs[i])
                   \/ ~IsStr(RecGet(recs[i], <<"label">>))
                   \/ ~IsStr(RecGet(recs[i], <<"lang">>))
                   \/ ~IsStr(RecGet(recs[i], <<"text">>))
           THEN last' = [last EXCEPT !.pc = "done", !.exc = "ValueError"] /\ UNCHANGED catalog
           ELSE \E r \in {set_text(Self, RecGet(recs[i], <<"label">>),
                                    RecGet(recs[i], <<"lang">>), RecGet(recs[i], <<"text">>),
                                    TRUE, ROOT_DOMAIN)} :
                  /\ data' = r.self._data
                  /\ UNCHANGED <<default_lang, allowed, context_domain>>
                  /\ last' = IF r.exc # "none" THEN [last EXCEPT !.pc = "done", !.exc = r.exc]
                             ELSE [last EXCEPT !.i = i + 1, !.count = last.count + 1]
    /\ UNCHANGED <<service, ncalls>>
    /\ UNCHANGED server

\* the other thread: a get_text on the catalog as it is now
ConcurrentGetText ==
    /\ last.op = "reload_from_file" /\ ~last.read.done
    /\ \E r \in {get_text(Self, last.read.label, last.read.lang, None, None,
                           last.read.domain)} :
          last' = [last EXCEPT !.read.done = TRUE, !.read.exc = r.exc, !.read.ret = r.ret]
    /\ UNCHANGED <<catalog, service, ncalls>>
    /\ UNCHANGED server

NextReload ==
    \/ ReloadClear
    \/ ReloadOpen
    \/ ReloadObjectStep
    \/ ReloadListStep
    \/ ConcurrentGetText

SpecReload == InitReload /\ [][NextReload]_vars

-----------------------------------------------------------------------------
(* has_text(label, lang, domain=d, recursive=True) followed by             *)
(* get_text(label, lang, domain=d) on the same catalog                     *)

InitExists ==
    /\ \E al \in {NoAllowList, {EN, DE}}, dl \in {EN, DE}, E \in SmallSubsets(ResolveKeys) :
          /\ al # NoAllowList => \A k \in E : k[3] \in al
          /\ Holds(Catalog(StoreFrom(E), dl, al, GLOBAL_DB))
    /\ initialized = FALSE
    /\ ctx_req = None
    /\ instance = 0
    /\ ncalls = 0
    /\ ServerDown
    /\ \E label \in {EmptyStr, LabelA}, lang \in HasLangs, domain \in ResolveDomains :
          last = [op |-> "has_text, get_text", done |-> FALSE, label |-> label, lang |-> lang,
                  domain |-> domain, has |-> [exc |-> "none", ret |-> FALSE],
                  exc |-> "none", ret |-> None]

HasTextGetText ==
    /\ last.op = "has_text, get_text" /\ ~last.done
    /\ \E h \in {has_text(Self, last.label, last.lang, last.domain, TRUE)} :
          \E r \in {get_text(Self, last.label, last.lang, None, None, last.domain)} :
             last' = [last EXCEPT !.done = TRUE, !.has = [exc |-> h.exc, ret |-> h.ret],
                                  !.exc = r.exc, !.ret = r.ret]
    /\ UNCHANGED <<catalog, service, ncalls, server>>

NextExists == HasTextGetText

SpecExists == InitExists /\ [][NextExists]_vars

-----------------------------------------------------------------------------
(* init_language called again in one thread, statement by statement, while *)
(* another thread calls text().  The catalog variables are the object      *)
(* _lang_catalog refers to; last holds the position of init_language (pc), *)
(* its local variable cat, the instance it started from (prev) and the     *)
(* reader: the object get_language() returned to it (ref) and its outcome. *)

\* the service holds an instance when init_language is called again: one
\* loaded from the domain file with GLOBAL.DB as context, or one loaded
\* from the legacy file
InitReinit ==
    /\ \E f0 \in {"domains", "legacy_obj"} :
          \E p \in {init_language(Files[f0], EmptyStr, NoAllowList, TRUE,
                                  IF f0 = "domains" THEN GLOBAL_DB ELSE None, f0 = "domains")} :
             Holds(p.self)
    /\ initialized = TRUE
    /\ ctx_req = None
    /\ instance = 1
    /\ ncalls = 0
    /\ ServerDown
    /\ \E f \in InitFiles, al \in AllowedArgs, context \in InitContexts, domain_aware \in BOOLEAN,
          label \in {LabelA, LabelB}, lang \in {None, DE} :
          last = [op |-> "init_language again", pc |-> "construct", file |-> f,
                  default_lang |-> EmptyStr, allowed_langs |-> al, overwrite |-> TRUE,
                  context |-> context, domain_aware |-> domain_aware, exc |-> "none",
                  cat |-> Self, prev |-> Self,
                  read |-> [pc |-> "start", label |-> label, lang |-> lang, ref |-> Self,
                            seen |-> 0, exc |-> "none", ret |-> None]]

Reinit(pc) == last.op = "init_language again" /\ last.pc = pc

\* init_language publishing the new catalog as soon as it is constructed
ReinitConstruct_publish ==
    /\ Reinit("construct")
    /\ Becomes(__init__(last.default_lang, last.allowed_langs))
    /\ last' = [last EXCEPT !.pc = "load",
                            !.cat = __init__(last.default_lang, last.allowed_langs)]
    /\ UNCHANGED service
    /\ UNCHANGED server

\* cat = LanguageCatalog(default_lang=default_lang, allowed_langs=allowed_langs)
ReinitConstruct ==
    /\ Reinit("construct")
    /\ last' = [last EXCEPT !.pc = "load",
                            !.cat = __init__(last.default_lang, last.allowed_langs)]
    /\ UNCHANGED <<catalog, service, ncalls>>
    /\ UNCHANGED server

\* cat.load_domains_from_file(...) or cat.load_from_file(...), on the local cat
ReinitLoad ==
    /\ Reinit("load")
    /\ \E r \in {IF last.domain_aware
                  THEN load_domains_from_file(last.cat, Files[last.file], last.overwrite)
                  ELSE load_from_file(last.cat, Files[last.file], last.overwrite)} :
          last' = IF r.exc # "none" THEN [last EXCEPT !.pc = "raised", !.exc = r.exc,
                                                      !.cat = r.self]
                  ELSE [last EXCEPT !.pc = "context", !.cat = r.self]
    /\ UNCHANGED <<catalog, service, ncalls>>
    /\ UNCHANGED server

\* if context is not None: cat.set_context(context)
ReinitContext ==
    /\ Reinit("context")
    /\ last' = [last EXCEPT !.pc = "assign",
                            !.cat = IF last.context # None
                                    THEN set_context(last.cat, last.context).self
                                    ELSE last.cat]
    /\ UNCHANGED <<catalog, service, ncalls>>
    /\ UNCHANGED server

\* _lang_catalog = cat
ReinitAssign ==
    /\ Reinit("assign")
    /\ data' = last.cat._data
    /\ default_lang' = last.cat._default_lang
    /\ allowed' = last.cat._allowed
    /\ context_domain' = last.cat._context_domain
    /\ initialized' = TRUE
    /\ ctx_req' = last.context
    /\ instance' = instance + 1
    /\ last' = [last EXCEPT !.pc = "done"]
    /\ UNCHANGED ncalls
    /\ UNCHANGED server

\* text(): get_language() returns the object _lang_catalog refers to now
ReaderGetLanguage ==
    /\ last.op = "init_language again" /\ last.read.pc = "start"
    /\ last' = IF get_language(initialized) # "none"
               THEN [last EXCEPT !.read.pc = "done", !.read.exc = get_language(initialized)]
               ELSE [last EXCEPT !.read.pc = "got", !.read.ref = Self, !.read.seen = instance]
    /\ UNCHANGED <<catalog, service, ncalls>>
    /\ UNCHANGED server

\* text(): .get_text(label, lang, ...) on the object get_language() returned
ReaderGetText ==
    /\ last.op = "init_language again" /\ last.read.pc = "got"
    /\ \E r \in {get_text(last.read.ref, last.read.label, last.read.lang, None, None, None)} :
          last' = [last EXCEPT !.read.pc = "done", !.read.exc = r.exc, !.read.ret = r.ret]
    /\ UNCHANGED <<catalog, service, ncalls>>
    /\ UNCHANGED server

NextReinit ==
    \/ ReinitConstruct
    \/ ReinitLoad
    \/ ReinitContext
    \/ ReinitAssign
    \/ ReaderGetLanguage
    \/ ReaderGetText

SpecReinit == InitReinit /\ [][NextReinit]_vars

-----------------------------------------------------------------------------
(* Two threads on one initialized service: the first calls                 *)
(* set_language_context(d) and then text(label) without a domain, the      *)
(* second calls set_language_context(d2).  last holds the position of each *)
(* thread (pc1, pc2) and the outcome of the first thread's text().         *)

InitContext ==
    /\ \E E \in SmallSubsets(ContextKeys) : Holds(Catalog(StoreFrom(E), EN, NoAllowList, ROOT_DOMAIN))
    /\ initialized = TRUE
    /\ ctx_req = None
    /\ instance = 1
    /\ ncalls = 0
    /\ ServerDown
    /\ \E d \in ContextArgs, d2 \in ContextArgs, lang \in {None, DE} :
          last = [op |-> "set_language_context in two threads", pc1 |-> "set", pc2 |-> "set",
                  d |-> d, d2 |-> d2, label |-> LabelA, lang |-> lang,
                  exc |-> "none", ret |-> None]

TwoThreads == last.op = "set_language_context in two threads"

\* thread 1: set_language_context(d)
FirstSetLanguageContext ==
    /\ TwoThreads /\ last.pc1 = "set"
    /\ context_domain' = set_language_context(initialized, Self, last.d).self._context_domain
    /\ ctx_req' = last.d
    /\ last' = [last EXCEPT !.pc1 = "text"]
    /\ UNCHANGED <<data, default_lang, allowed, initialized, instance, ncalls>>
    /\ UNCHANGED server

\* thread 1: text(label, lang), no domain given
FirstText ==
    /\ TwoThreads /\ last.pc1 = "text"
    /\ \E r \in {service_text(initialized, Self, last.label, last.lang, None, None, None)} :
          last' = [last EXCEPT !.pc1 = "done", !.exc = r.exc, !.ret = r.ret]
    /\ UNCHANGED <<catalog, service, ncalls>>
    /\ UNCHANGED server

\* thread 2: set_language_context(d2)
SecondSetLanguageContext ==
    /\ TwoThreads /\ last.pc2 = "set"
    /\ context_domain' = set_language_context(initialized, Self, last.d2).self._context_domain
    /\ ctx_req' = last.d2
    /\ last' = [last EXCEPT !.pc2 = "done"]
    /\ UNCHANGED <<data, default_lang, allowed, initialized, instance, ncalls>>
    /\ UNCHANGED server

NextContext ==
    \/ FirstSetLanguageContext
    \/ FirstText
    \/ SecondSetLanguageContext

SpecContext == InitContext /\ [][NextContext]_vars

-----------------------------------------------------------------------------
(* POST /admin/reload-config, statement by statement, while another        *)
(* request reads the configuration through get_config().  last holds the   *)
(* position of reload_config (pc), the instance from_files is building     *)
(* (inst), the configuration in effect when it started (prev), its HTTP    *)
(* status and body, and the reader: the object get_config() gave it (ref)  *)
(* and the labels it listed.                                               *)

\* the language service as get_language() finds it
Language == [inited |-> initialized, cat |-> Self]

InitConfig ==
    /\ \E up \in BOOLEAN :
          /\ initialized = up
          /\ instance = IF up THEN 1 ELSE 0
          /\ Holds(IF up THEN Catalog(StoreFrom(MessageKeys), EN, NoAllowList, ROOT_DOMAIN)
                   ELSE __init__(EmptyStr, NoAllowList))
    /\ ctx_req = None
    /\ ncalls = 0
    /\ jobs = EmptyDict
    /\ executed = {}
    /\ written = {}
    /\ cfg \in StartupConfigs
    /\ \E t \in TokenPairs, qf \in DOMAIN QueryFiles, cf \in DOMAIN CsvConfigFiles :
          last = [op |-> "reload_config", pc |-> "verify", ADMIN_TOKEN |-> t[1],
                  x_admin_token |-> t[2], queries |-> qf, csv_configs |-> cf,
                  inst |-> NoConfig, prev |-> cfg, status |-> 0,
                  body |-> [queries |-> <<>>, csv_configs |-> <<>>],
                  read |-> [pc |-> "start", ref |-> NoConfig, status |-> 0,
                            queries |-> <<>>, csv_configs |-> <<>>]]

ReloadingConfig(pc) == last.op = "reload_config" /\ last.pc = pc

\* _verify_token(x_admin_token, settings)
ReloadConfigVerify ==
    /\ ReloadingConfig("verify")
    /\ last' = IF _verify_token(last.x_admin_token, last.ADMIN_TOKEN) # 0
               THEN [last EXCEPT !.pc = "done",
                                 !.status = _verify_token(last.x_admin_token, last.ADMIN_TOKEN)]
               ELSE [last EXCEPT !.pc = "construct"]
    /\ UNCHANGED <<catalog, service, ncalls, server>>

\* from_files: inst = cls()
ReloadConfigConstruct ==
    /\ ReloadingConfig("construct")
    /\ last' = [last EXCEPT !.pc = "queries", !.inst = CsvReporterConfig]
    /\ UNCHANGED <<catalog, service, ncalls, server>>

\* from_files loading the queries into the configuration in effect
ReloadConfigQueries_live ==
    /\ ReloadingConfig("queries")
    /\ \E r \in {load_queries_from_file(Language, cfg, QueryFiles[last.queries], TRUE)} :
          /\ cfg' = r.self
          /\ last' = IF r.exc # "none" THEN [last EXCEPT !.pc = "done", !.status = 500]
                     ELSE [last EXCEPT !.pc = "csv_configs", !.inst = r.self]
    /\ UNCHANGED <<catalog, service, ncalls, jobs, executed, written>>

\* from_files: inst.load_queries_from_file(queries_path, overwrite=overwrite);
\* an exception leaves reload_config as HTTP 500
ReloadConfigQueries ==
    /\ ReloadingConfig("queries")
    /\ \E r \in {load_queries_from_file(Language, last.inst, QueryFiles[last.queries], TRUE)} :
          last' = IF r.exc # "none" THEN [last EXCEPT !.pc = "done", !.status = 500]
                  ELSE [last EXCEPT !.pc = "csv_configs", !.inst = r.self]
    /\ UNCHANGED <<catalog, service, ncalls, server>>

\* from_files: inst.load_csv_configs_from_file(csv_configs_path, overwrite=overwrite)
ReloadConfigCsvConfigs ==
    /\ ReloadingConfig("csv_configs")
    /\ \E r \in {load_csv_configs_from_file(Language, last.inst,
                                             CsvConfigFiles[last.csv_configs], TRUE)} :
          last' = IF r.exc # "none" THEN [last EXCEPT !.pc = "done", !.status = 500]
                  ELSE [last EXCEPT !.pc = "assign", !.inst = r.self]
    /\ UNCHANGED <<catalog, service, ncalls, server>>

\* state.cfg = <the instance from_files returned>
ReloadConfigAssign ==
    /\ ReloadingConfig("assign")
    /\ cfg' = last.inst
    /\ last' = [last EXCEPT !.pc = "respond"]
    /\ UNCHANGED <<catalog, service, ncalls, jobs, executed, written>>

\* the response: the labels of state.cfg
ReloadConfigRespond ==
    /\ ReloadingConfig("respond")
    /\ last' = [last EXCEPT !.pc = "done", !.status = 200,
                            !.body = [queries |-> list_query_labels(cfg),
                                      csv_configs |-> list_csv_config_labels(cfg)]]
    /\ UNCHANGED <<catalog, service, ncalls, server>>

\* another request: cfg = Depends(get_config)
RequestGetConfig ==
    /\ last.op = "reload_config" /\ last.read.pc = "start"
    /\ last' = IF get_config(cfg).status # 0
               THEN [last EXCEPT !.read.pc = "done", !.read.status = get_config(cfg).status]
               ELSE [last EXCEPT !.read.pc = "got", !.read.ref = get_config(cfg).ret]
    /\ UNCHANGED <<catalog, service, ncalls, server>>

\* another request: cfg.list_query_labels() and cfg.list_csv_config_labels()
RequestListLabels ==
    /\ last.op = "reload_config" /\ last.read.pc = "got"
    /\ last' = [last EXCEPT !.read.pc = "done", !.read.status = 200,
                            !.read.queries = list_query_labels(last.read.ref),
                            !.read.csv_configs = list_csv_config_labels(last.read.ref)]
    /\ UNCHANGED <<catalog, service, ncalls, server>>

NextConfig ==
    \/ ReloadConfigVerify
    \/ ReloadConfigConstruct
    \/ ReloadConfigQueries
    \/ ReloadConfigCsvConfigs
    \/ ReloadConfigAssign
    \/ ReloadConfigRespond
    \/ RequestGetConfig
    \/ RequestListLabels

SpecConfig == InitConfig /\ [][NextConfig]_vars

-----------------------------------------------------------------------------
(* Background jobs: JobManager.start_job, the thread of each job running   *)
(* Job.run, and a GET /jobs/{job_id} request reading a job meanwhile       *)

PENDING == "PENDING"
RUNNING == "RUNNING"
SUCCESS == "SUCCESS"
ERROR == "ERROR"

\* datetime.utcnow()
UtcNow == <<"<datetime>">>

\* what a job's target does when it is called: it returns a value, raises an
\* Exception, or raises a BaseException that is no Exception
TargetOutcomes == {"returns", "raises Exception", "raises BaseException"}

\* Job(name, target): _thread is where the thread of the job stands in run
Job(name) ==
    [name |-> name, status |-> PENDING, start_time |-> None, end_time |-> None,
     error |-> None, result |-> None, _thread |-> "none"]

NoRequest ==
    [op |-> "get_job", pc |-> "idle", job_id |-> 0, status_code |-> 0,
     body |-> [status |-> "none", start_time |-> None, end_time |-> None,
               error |-> None, result |-> None]]

InitJobs ==
    /\ Holds(__init__(EmptyStr, NoAllowList))
    /\ initialized = FALSE
    /\ ctx_req = None
    /\ instance = 0
    /\ ncalls = 0
    /\ ServerDown
    /\ last = NoRequest

\* the thread of job id stands at pc
JobAt(id, pc) == id \in DOMAIN jobs /\ jobs[id]._thread = pc

\* start_job: a job with a fresh id is registered, and its thread started
start_job ==
    /\ Len(jobs) < MaxJobs
    /\ jobs' = Put(jobs, Len(jobs) + 1, [Job(<<"export">>) EXCEPT !._thread = "status"])
    /\ UNCHANGED <<catalog, service, ncalls, cfg, executed, written, last>>

\* run: self.status = JobStatus.RUNNING
JobRunStatus ==
    /\ \E id \in DOMAIN jobs :
          /\ JobAt(id, "status")
          /\ jobs' = [jobs EXCEPT ![id].status = RUNNING, ![id]._thread = "start_time"]
    /\ UNCHANGED <<catalog, service, ncalls, cfg, executed, written, last>>

\* run: self.start_time = datetime.utcnow()
JobRunStartTime ==
    /\ \E id \in DOMAIN jobs :
          /\ JobAt(id, "start_time")
          /\ jobs' = [jobs EXCEPT ![id].start_time = UtcNow, ![id]._thread = "target"]
    /\ UNCHANGED <<catalog, service, ncalls, cfg, executed, written, last>>

\* run: self.result = self._target(...), or the target raises
JobRunTarget ==
    /\ \E id \in DOMAIN jobs, outcome \in TargetOutcomes :
          /\ JobAt(id, "target")
          /\ jobs' = IF outcome = "returns"
                     THEN [jobs EXCEPT ![id].result = <<"out.csv">>, ![id]._thread = "success"]
                     ELSE IF outcome = "raises Exception"
                     THEN [jobs EXCEPT ![id]._thread = "except"]
                     ELSE [jobs EXCEPT ![id]._thread = "finally"]
    /\ UNCHANGED <<catalog, service, ncalls, cfg, executed, written, last>>

\* run: self.status = JobStatus.SUCCESS
JobRunSuccess ==
    /\ \E id \in DOMAIN jobs :
          /\ JobAt(id, "success")
          /\ jobs' = [jobs EXCEPT ![id].status = SUCCESS, ![id]._thread = "finally"]
    /\ UNCHANGED <<catalog, service, ncalls, cfg, executed, written, last>>

\* run, except Exception as e: self.error = str(e)
JobRunExcept ==
    /\ \E id \in DOMAIN jobs :
          /\ JobAt(id, "except")
          /\ jobs' = [jobs EXCEPT ![id].error = <<"boom">>, ![id]._thread = "error"]
    /\ UNCHANGED <<catalog, service, ncalls, cfg, executed, written, last>>

\* run, except: self.status = JobStatus.ERROR
JobRunError ==
    /\ \E id \in DOMAIN jobs :
          /\ JobAt(id, "error")
          /\ jobs' = [jobs EXCEPT ![id].status = ERROR, ![id]._thread = "finally"]
    /\ UNCHANGED <<catalog, service, ncalls, cfg, executed, written, last>>

\* run whose finally clause also marks the job as succeeded
JobRunFinally_success ==
    /\ \E id \in DOMAIN jobs :
          /\ JobAt(id, "finally")
          /\ jobs' = [jobs EXCEPT ![id].end_time = UtcNow, ![id].status = SUCCESS,
                                  ![id]._thread = "ended"]
    /\ UNCHANGED <<catalog, service, ncalls, cfg, executed, written, last>>

\* run, finally: self.end_time = datetime.utcnow()
JobRunFinally ==
    /\ \E id \in DOMAIN jobs :
          /\ JobAt(id, "finally")
          /\ jobs' = [jobs EXCEPT ![id].end_time = UtcNow, ![id]._thread = "ended"]
    /\ UNCHANGED <<catalog, service, ncalls, cfg, executed, written, last>>

\* GET /jobs/{job_id}: job_manager.get_job(job_id), 404 when there is none
GetJobLookup ==
    /\ last.op = "get_job" /\ last.pc \in {"idle", "done"}
    /\ \E job_id \in 1..MaxJobs :
          last' = IF job_id \in DOMAIN jobs
                  THEN [NoRequest EXCEPT !.pc = "status", !.job_id = job_id]
                  ELSE [NoRequest EXCEPT !.pc = "done", !.job_id = job_id, !.status_code = 404]
    /\ UNCHANGED <<catalog, service, ncalls, server>>

\* the response is built field by field: "status": job.status
GetJobStatus ==
    /\ last.op = "get_job" /\ last.pc = "status"
    /\ last' = [last EXCEPT !.pc = "times", !.body.status = jobs[last.job_id].status]
    /\ UNCHANGED <<catalog, service, ncalls, server>>

\* "start_time": job.start_time, "end_time": job.end_time
GetJobTimes ==
    /\ last.op = "get_job" /\ last.pc = "times"
    /\ last' = [last EXCEPT !.pc = "outcome",
                            !.body.start_time = jobs[last.job_id].start_time,
                            !.body.end_time = jobs[last.job_id].end_time]
    /\ UNCHANGED <<catalog, service, ncalls, server>>

\* "error": job.error, "result": job.result, and the response is returned
GetJobOutcome ==
    /\ last.op = "get_job" /\ last.pc = "outcome"
    /\ last' = [last EXCEPT !.pc = "done", !.status_code = 200,
                            !.body.error = jobs[last.job_id].error,
                            !.body.result = jobs[last.job_id].result]
    /\ UNCHANGED <<catalog, service, ncalls, server>>

NextJobs ==
    \/ start_job
    \/ JobRunStatus
    \/ JobRunStartTime
    \/ JobRunTarget
    \/ JobRunSuccess
    \/ JobRunExcept
    \/ JobRunError
    \/ JobRunFinally
    \/ GetJobLookup
    \/ GetJobStatus
    \/ GetJobTimes
    \/ GetJobOutcome

SpecJobs == InitJobs /\ [][NextJobs]_vars

-----------------------------------------------------------------------------
(* POST /csv/export on a started server *)

\* the labels and the out_path a request names
ExportLabels == {LabelA, LabelB, <<"Z">>}
OutPath == <<"out.csv">>

InitExport ==
    /\ \E up \in BOOLEAN :
          /\ initialized = up
          /\ instance = IF up THEN 1 ELSE 0
          /\ Holds(IF up THEN Catalog(StoreFrom(MessageKeys), EN, NoAllowList, ROOT_DOMAIN)
                   ELSE __init__(EmptyStr, NoAllowList))
    /\ ctx_req = None
    /\ ncalls = 0
    /\ jobs = EmptyDict
    /\ executed = {}
    /\ written = {}
    /\ cfg \in StartupConfigs \cup {NoConfig}
    /\ \E q \in ExportLabels, c \in ExportLabels, background \in BOOLEAN :
          last = [op |-> "export_csv", pc |-> "request", select_label |-> q,
                  csv_config_label |-> c, out_path |-> OutPath, background |-> background,
                  status_code |-> 0, exc |-> "none", ret |-> None, job_id |-> 0]

\* export_csv: get_config, then start_job for a background request, else
\* run_export with ValueError answered by 400 and any other Exception by 500
export_csv ==
    /\ last.op = "export_csv" /\ last.pc = "request"
    /\ IF get_config(cfg).status # 0
       THEN /\ last' = [last EXCEPT !.pc = "done", !.status_code = get_config(cfg).status]
            /\ UNCHANGED <<jobs, executed, written>>
       ELSE IF last.background
       THEN /\ jobs' = Put(jobs, Len(jobs) + 1,
                           [Job(<<"CSV Export">>) EXCEPT !._thread = "status"])
            /\ last' = [last EXCEPT !.pc = "done", !.status_code = 200,
                                    !.job_id = Len(jobs) + 1]
            /\ UNCHANGED <<executed, written>>
       ELSE \E r \in {run_export(Language, cfg, last.select_label, last.csv_config_label,
                                  last.out_path, executed, written)} :
               /\ last' = [last EXCEPT !.pc = "done", !.exc = r.exc, !.ret = r.ret,
                                       !.status_code = IF r.exc = "none" THEN 200
                                                       ELSE IF r.exc = "ValueError" THEN 400
                                                       ELSE 500]
               /\ executed' = r.executed
               /\ written' = r.written
               /\ jobs' = jobs
    /\ UNCHANGED <<catalog, service, ncalls, cfg>>

NextExport == export_csv

SpecExport == InitExport /\ [][NextExport]_vars

-----------------------------------------------------------------------------
(* Reading a store as a set of entries *)

\* the (domain, label, language) triples that have a text
Entries(d) ==
    UNION {UNION {{<<dom, label, lang>> : lang \in DOMAIN d[dom][label]} :
                  label \in DOMAIN d[dom]} :
           dom \in DOMAIN d}

TextAt(d, k) == d[k[1]][k[2]][k[3]]

-----------------------------------------------------------------------------
(* The resolution the claims describe, for the get_text call held by last *)

Resolved == last.op = "get_text" /\ last.done

\* a language argument that passes validation (or is not given)
LangAccepted(lang) ==
    Truthy(lang) => (allowed = NoAllowList \/ Upper(lang) \in allowed)

\* the call has a label and languages that pass validation
Resolvable == Resolved /\ last.label # EmptyStr
              /\ LangAccepted(last.lang) /\ LangAccepted(last.fallback_lang)

\* the chain of the call: that of its domain, else of the current context
CallChain ==
    _domain_chain(IF Truthy(last.domain) THEN last.domain ELSE context_domain)

\* the languages tried in a domain, in order
Tiers ==
    <<IF Truthy(last.lang) THEN Upper(last.lang) ELSE default_lang>>
    \o (IF Truthy(last.fallback_lang) THEN <<Upper(last.fallback_lang)>> ELSE <<>>)
    \o <<default_lang>>

\* the tiers in which the domain holds the label
TiersAt(d) == {t \in 1..Len(Tiers) : <<d, last.label, Tiers[t]>> \in Entries(data)}

\* the positions of the chain whose domain holds the label in some tier
ChainHits == {i \in 1..Len(CallChain) : TiersAt(CallChain[i]) # {}}

Min(S) == CHOOSE x \in S : \A y \in S : x <= y

-----------------------------------------------------------------------------
(* C1 *)

\* C1: get_text returns the text of the first domain of the chain that holds
\* the label in one of the tried languages and, in that domain, of the first
\* present of primary language, supplied fallback language, default language.
C1_DomainFirst ==
    (Resolvable /\ ChainHits # {}) =>
        LET d == CallChain[Min(ChainHits)]
        IN  /\ last.exc = "none"
            /\ last.ret = TextAt(data, <<d, last.label, Tiers[Min(TiersAt(d))]>>)

\* the most specific domain had the label only in the default language, its
\* parent had it in the requested one, and the default-language text of the
\* most specific domain was returned
C1_Witness ==
    /\ Resolvable /\ last.label = LabelA /\ last.lang = <<"e", "n">>
    /\ last.fallback_lang = FR /\ default_lang = DE
    /\ CallChain = <<GLOBAL_DB_ORA, GLOBAL_DB, ROOT_DOMAIN>>
    /\ Entries(data) = {<<GLOBAL_DB_ORA, LabelA, DE>>, <<GLOBAL_DB, LabelA, EN>>}
    /\ last.ret = TextOf(GLOBAL_DB_ORA, DE)

-----------------------------------------------------------------------------
(* C2 *)

\* the catalog of the scenario: the label at (GLOBAL, EN) and (ORACLE, DE)
ScenarioStore ==
    Entries(data) = {<<ROOT_DOMAIN, LabelA, EN>>, <<GLOBAL_DB_ORA, LabelA, DE>>}

\* a resolve of the scenario: the label in the ORACLE domain for DE or EN, no
\* fallback language
ScenarioCall ==
    /\ ScenarioStore /\ Resolved /\ last.label = LabelA
    /\ last.fallback_lang = None
    /\ Truthy(last.lang) /\ Upper(last.lang) \in {EN, DE}
    /\ _normalize_domain(last.domain) = GLOBAL_DB_ORA

\* C2 as stated: whatever the default language, lang=DE yields the ORACLE DE
\* text and lang=EN the GLOBAL EN text.
C2_Original ==
    ScenarioCall =>
        /\ last.exc = "none"
        /\ Upper(last.lang) = DE => last.ret = TextOf(GLOBAL_DB_ORA, DE)
        /\ Upper(last.lang) = EN => last.ret = TextOf(ROOT_DOMAIN, EN)

\* C2 amended: lang=DE yields the ORACLE DE text; lang=EN yields the GLOBAL
\* EN text unless the default language is DE, in which case the ORACLE
\* domain answers with its DE text (third tier) before GLOBAL is consulted.
C2_Scenario ==
    ScenarioCall =>
        /\ last.exc = "none"
        /\ Upper(last.lang) = DE => last.ret = TextOf(GLOBAL_DB_ORA, DE)
        /\ Upper(last.lang) = EN =>
              last.ret = IF default_lang = DE THEN TextOf(GLOBAL_DB_ORA, DE)
                         ELSE TextOf(ROOT_DOMAIN, EN)

\* the scenario resolved for EN under the default language DE
C2_Witness ==
    /\ ScenarioCall /\ Upper(last.lang) = EN /\ default_lang = DE
    /\ last.ret = TextOf(GLOBAL_DB_ORA, DE)

-----------------------------------------------------------------------------
(* C3 *)

\* C3: when no domain of the chain yields a text for a non-empty label,
\* get_text returns the default if one is given and otherwise raises KeyError
\* naming the label and the chain searched; a text it returns is the default
\* or the text of an entry of a domain of the chain.
C3_Exhausted ==
    Resolvable =>
        /\ ChainHits = {} =>
              IF last.default # None
              THEN last.exc = "none" /\ last.ret = last.default
              ELSE last.exc = "KeyError" /\ last.ret = last.label
                   /\ last.chain = CallChain
        /\ last.exc = "none" =>
              \/ last.ret = last.default
              \/ \E i \in 1..Len(CallChain), k \in Entries(data) :
                    /\ k[1] = CallChain[i] /\ k[2] = last.label
                    /\ last.ret = TextAt(data, k)

\* the label was stored only outside the chain and the empty default came back
C3_Witness ==
    /\ Resolvable /\ last.label = LabelA /\ last.default = EmptyStr
    /\ CallChain = <<GLOBALIZATION, ROOT_DOMAIN>>
    /\ Entries(data) = {<<GLOBAL_DB, LabelA, EN>>, <<GLOBAL_DB_ORA, LabelA, EN>>}
    /\ last.exc = "none" /\ last.ret = EmptyStr

-----------------------------------------------------------------------------
(* C4 *)

\* the exception get_text raises for a non-empty label it cannot resolve
NotFoundExc ==
    get_text(Catalog(EmptyDict, EN, NoAllowList, ROOT_DOMAIN),
             LabelA, None, None, None, None).exc

\* C4: get_text with an empty label returns the default when one is given,
\* whatever the language arguments, and otherwise raises an error of another
\* kind than the one raised for an unresolved non-empty label.
C4_EmptyLabel ==
    (Resolved /\ last.label = EmptyStr) =>
        IF last.default # None
        THEN last.exc = "none" /\ last.ret = last.default
        ELSE last.exc # "none" /\ last.exc # NotFoundExc

-----------------------------------------------------------------------------
(* C5 *)

ServiceQuery == last.op \in {"text", "fmt"}

\* the context the service was last asked for: the domain of the latest
\* set_language_context, else the context of init_language, else GLOBAL
CurrentContext == _normalize_domain(ctx_req)

\* the call held by last, made again with another domain argument on the
\* catalog as it would be with another context
Again(domain, ctx) ==
    LET cat == [Self EXCEPT !._context_domain = ctx]
        r   == IF last.op = "text"
               THEN service_text(initialized, cat, last.label, last.lang, domain,
                                 last.default, last.fallback_lang)
               ELSE service_fmt(initialized, cat, last.label, last.lang, domain,
                                last.default, last.fallback_lang, last.kwargs)
    IN  <<r.exc, r.ret>>

-----------------------------------------------------------------------------
(* C6 *)

OverwriteOps == {"set_text", "load_from_file", "add_file", "load_domains_from_file",
                 "load_language_only_from_file"}

\* C6: a set_text or loader call with overwrite=false keeps the text of
\* every entry that existed before it, and a set_text with overwrite=false for
\* a triple that exists returns without error and changes nothing.
C6_SkipExisting ==
    [][(last'.op \in OverwriteOps /\ ~last'.overwrite) =>
         /\ \A k \in Entries(data) :
               k \in Entries(data') /\ TextAt(data', k) = TextAt(data, k)
         /\ (/\ last'.op = "set_text"
             /\ <<_normalize_domain(IF Truthy(last'.domain) THEN last'.domain
                                    ELSE context_domain),
                  last'.label, Upper(last'.lang)>> \in Entries(data))
            => (last'.exc = "none" /\ data' = data)
      ]_vars

\* add_file(overwrite=false) has loaded a file holding another text for an
\* entry that was there before
C6_Witness ==
    /\ last.op = "add_file" /\ ~last.overwrite /\ last.file = "legacy_obj"
    /\ last.exc = "none" /\ last.ret = 2
    /\ <<ROOT_DOMAIN, LabelA, EN>> \in Entries(data)
    /\ TextAt(data, <<ROOT_DOMAIN, LabelA, EN>>) = T1

-----------------------------------------------------------------------------
(* C7 *)

\* C7: a set_text with an empty label or an empty or disallowed language
\* raises and leaves the store as it was, buckets included; any other
\* set_text with overwrite=true stores the text under (normalized domain,
\* label, uppercased language) and changes no other entry.
C7_SetText ==
    [][last'.op = "set_text" =>
         LET c   == last'
             key == <<_normalize_domain(IF Truthy(c.domain) THEN c.domain
                                        ELSE context_domain),
                      c.label, Upper(c.lang)>>
         IN  IF \/ c.label = EmptyStr
                \/ c.lang = EmptyStr
                \/ (allowed # NoAllowList /\ Upper(c.lang) \notin allowed)
             THEN c.exc # "none" /\ data' = data
             ELSE c.overwrite =>
                    /\ c.exc = "none"
                    /\ Entries(data') = Entries(data) \cup {key}
                    /\ TextAt(data', key) = c.text
                    /\ \A k \in Entries(data) \ {key} : TextAt(data', k) = TextAt(data, k)
      ]_vars

\* a set_text with a language outside the allow-list has been refused
C7_Witness ==
    /\ last.op = "set_text" /\ last.exc = "ValueError"
    /\ last.label = LabelA /\ last.lang = DE
    /\ allowed = {EN}
    /\ data # EmptyDict

-----------------------------------------------------------------------------
(* C8 *)

\* C8: every domain key of the store is normalized (non-empty, without
\* surrounding whitespace, its own normalization) and every language key is
\* uppercase and, when an allow-list is configured, a member of it.
C8_KeysNormalized ==
    /\ \A dom \in DOMAIN data :
          /\ dom # EmptyStr
          /\ ~IsWhitespace(dom[1]) /\ ~IsWhitespace(dom[Len(dom)])
          /\ _normalize_domain(dom) = dom
    /\ \A dom \in DOMAIN data : \A label \in DOMAIN data[dom] :
          \A lang \in DOMAIN data[dom][label] :
             /\ \A i \in 1..Len(lang) : lang[i] \in {"E", "N", "D", "F", "R"}
             /\ allowed # NoAllowList => lang \in allowed

\* a text given with a padded domain and a lower-case language has been
\* stored in a catalog with an allow-list
C8_Witness ==
    /\ last.op = "set_text" /\ last.exc = "none"
    /\ last.domain = <<" ", "GLOBAL", ".", "DB", " ">>
    /\ last.lang = <<"e", "n">>
    /\ allowed = {EN}
    /\ <<GLOBAL_DB, LabelA, EN>> \in Entries(data)

-----------------------------------------------------------------------------
(* C10 *)

Listed == last.op = "list_labels" /\ last.done

\* d is dom or lies below it in the domain tree: the segments of dom are a
\* prefix of those of d
AtOrBelow(d, dom) ==
    LET sd == Split(d)
        sdom == Split(dom)
    IN  Len(sdom) <= Len(sd) /\ SubSeq(sd, 1, Len(sdom)) = sdom

\* the domains a list_labels call selects
ListedDomains ==
    IF last.domain = None THEN DOMAIN data
    ELSE IF ~last.recursive THEN {d \in DOMAIN data : d = _normalize_domain(last.domain)}
    ELSE {d \in DOMAIN data : AtOrBelow(d, _normalize_domain(last.domain))}

\* C10: list_labels returns, strictly increasing in lexicographic order, the
\* labels of: all domains when no domain is given; the normalized domain
\* alone when recursive is false; the domain and the domains below it when
\* recursive is true.
C10_ListLabels ==
    Listed =>
        /\ \A i \in 1..(Len(last.ret) - 1) : LexLess(last.ret[i], last.ret[i + 1])
        /\ {last.ret[i] : i \in 1..Len(last.ret)}
             = {k[2] : k \in {e \in Entries(data) : e[1] \in ListedDomains}}

\* a recursive listing of GLOBAL with entries below GLOBAL and under
\* GLOBALIZATION
C10_Witness ==
    /\ Listed /\ last.recursive /\ last.domain = ROOT_DOMAIN
    /\ Entries(data) = {<<GLOBAL_DB_ORA, <<"a">>, EN>>, <<GLOBALIZATION, LabelB, EN>>}
    /\ last.ret = << <<"a">> >>

-----------------------------------------------------------------------------
(* C11 *)

LangsListed == last.op = "list_languages" /\ last.done

\* C11: list_languages returns, strictly increasing in lexicographic order,
\* the language codes of the entries of the domains selected as list_labels
\* selects them (all domains; the exact domain; the domain and the domains
\* below it), of the given label only when a label is given; and every
\* language it lists for a label is listed with no label given.
C11_ListLanguages ==
    LangsListed =>
        LET listed == {last.ret[i] : i \in 1..Len(last.ret)}
            all    == list_languages(Self, None, last.domain, last.recursive)
        IN  /\ \A i \in 1..(Len(last.ret) - 1) : LexLess(last.ret[i], last.ret[i + 1])
            /\ listed = {k[3] : k \in {e \in Entries(data) :
                                           /\ e[1] \in ListedDomains
                                           /\ last.label # None => e[2] = last.label}}
            /\ listed \subseteq {all[i] : i \in 1..Len(all)}

\* a recursive listing for label A under GLOBAL.DB, with another language
\* stored for label B below it
C11_Witness ==
    /\ LangsListed /\ last.recursive /\ last.label = LabelA
    /\ last.domain = <<" ">> \o GLOBAL_DB \o <<" ">>
    /\ Entries(data) = {<<GLOBAL_DB_ORA, LabelA, EN>>, <<GLOBAL_DB, LabelB, DE>>}
    /\ last.ret = <<EN>>

-----------------------------------------------------------------------------
(* C12 *)

HasAsked == last.op = "has_text" /\ last.done

\* the domains a has_text call searches: the effective domain (the domain
\* argument, else the current context), with its ancestor chain when
\* recursive
SearchedDomains ==
    LET eff == _normalize_domain(IF Truthy(last.domain) THEN last.domain
                                 ELSE context_domain)
        ch  == _domain_chain(eff)
    IN  IF last.recursive THEN {ch[i] : i \in 1..Len(ch)} ELSE {eff}

\* an entry for the label exists in a searched domain, in the language
\* code / in any language
ExistsIn(code) ==
    \E d \in SearchedDomains : <<d, last.label, code>> \in Entries(data)

ExistsInAny ==
    \E e \in Entries(data) : e[1] \in SearchedDomains /\ e[2] = last.label

-----------------------------------------------------------------------------
(* C13 *)

Formatted == last.op = "LanguageCatalog.fmt" /\ last.done

\* substitution into a template succeeds: no single "{", no positional
\* field, and every named field has a value
Substitutable(t, kwargs) ==
    \A i \in 1..Len(t) :
        /\ t[i] \notin {"{", "{}"}
        /\ FieldOf(t[i]) # "" => FieldOf(t[i]) \in DOMAIN kwargs

\* the template with every field replaced by its value and every escaped
\* brace by a brace
Substituted(t, kwargs) ==
    [i \in 1..Len(t) |->
        IF FieldOf(t[i]) # "" THEN kwargs[FieldOf(t[i])]
        ELSE IF t[i] = "{{" THEN "{" ELSE t[i]]

\* C13: when get_text raises, fmt raises the same; when get_text yields a
\* template, fmt raises nothing and returns the substituted text if the
\* substitution succeeds, and the template unchanged if it does not (a
\* field without a value, a malformed template).
C13_Lenient ==
    Formatted =>
        LET t == get_text(Self, last.label, last.lang, None, last.default, None)
        IN  IF t.exc # "none" THEN last.exc = t.exc
            ELSE /\ last.exc = "none"
                 /\ last.ret = IF Substitutable(t.ret, last.kwargs)
                                THEN Substituted(t.ret, last.kwargs)
                                ELSE t.ret

\* "Hello {name}" formatted with no substitutions came back unchanged
C13_Witness ==
    /\ Formatted /\ last.label = LabelA /\ last.kwargs = <<>>
    /\ TextAt(data, <<ROOT_DOMAIN, LabelA, EN>>) = T2
    /\ last.exc = "none" /\ last.ret = T2

-----------------------------------------------------------------------------
(* C14 *)

LoaderOps == {"load_from_file", "add_file", "load_domains_from_file",
              "load_language_only_from_file"}

\* the entries of the store d2 that are not in d, or have another text there
Written(d, d2) ==
    {k \in Entries(d2) : k \notin Entries(d) \/ TextAt(d2, k) # TextAt(d, k)}

\* C14: the count a loader returns is the number of entries the call
\* inserted or updated: with overwrite=false exactly the entries that are
\* new in the store, with overwrite=true at least the entries that are new
\* or have a new text and at most the entries the store holds afterwards.
C14_Count ==
    [][(last'.op \in LoaderOps /\ last'.exc = "none") =>
         IF last'.overwrite
         THEN /\ Cardinality(Written(data, data')) <= last'.ret
              /\ last'.ret <= Cardinality(Entries(data'))
         ELSE last'.ret = Cardinality(Entries(data') \ Entries(data))
      ]_vars

-----------------------------------------------------------------------------
(* C15 *)

\* C15: whatever the current context, a load_from_file or add_file inserts
\* or changes entries of the root domain GLOBAL only, and a
\* load_language_only_from_file only entries of the normalized domain it is
\* given (GLOBAL when none is given) in the language it is given; neither
\* removes an entry.
C15_LoadTarget ==
    [][/\ last'.op \in {"load_from_file", "add_file"} =>
            /\ \A k \in Written(data, data') : k[1] = ROOT_DOMAIN
            /\ Entries(data) \subseteq Entries(data')
       /\ last'.op = "load_language_only_from_file" =>
            /\ \A k \in Written(data, data') :
                  /\ k[1] = _normalize_domain(last'.domain)
                  /\ k[3] = Upper(last'.lang)
            /\ Entries(data) \subseteq Entries(data')
      ]_vars

\* with GLOBAL.DB as the current context, add_file has put its entries
\* under GLOBAL
C15_Witness ==
    /\ context_domain = GLOBAL_DB
    /\ last.op = "add_file" /\ last.file = "legacy_obj" /\ last.exc = "none"
    /\ Entries(data) = {<<ROOT_DOMAIN, LabelA, EN>>, <<ROOT_DOMAIN, LabelB, DE>>}

-----------------------------------------------------------------------------
(* C16 *)

\* C16: after a load_domains_from_file with overwrite=true that succeeded,
\* on whatever store, loading the same file again with overwrite=true
\* succeeds and leaves the catalog exactly as the first load left it.
C16_Idempotent ==
    [][(last'.op = "load_domains_from_file" /\ last'.overwrite /\ last'.exc = "none") =>
         LET again == load_domains_from_file(Self', Files[last'.file], TRUE)
         IN  again.exc = "none" /\ again.self = Self' /\ again.ret = last'.ret
      ]_vars

\* the domain file, two of whose keys normalize to GLOBAL.DB, has been
\* loaded as the second call, into a store that holds an entry of its own
C16_Witness ==
    /\ last.op = "load_domains_from_file" /\ last.overwrite /\ last.exc = "none"
    /\ last.file = "domains" /\ ncalls = 2
    /\ TextAt(data, <<GLOBAL_DB, LabelA, EN>>) = T2
    /\ <<ROOT_DOMAIN, LabelA, EN>> \in Entries(data)

-----------------------------------------------------------------------------
(* C17 *)

\* the service functions that go through get_language, and get_language
ThroughGetLanguage ==
    {"get_language", "text", "fmt", "set_language_context", "set_default_language",
     "add_language_file", "add_domain_file", "add_single_language_file"}

\* C17: the service becomes initialized by a successful init_language only
\* and stays so; while it is not, get_language and every function that goes
\* through it raise RuntimeError (Uninitialized) and change neither the
\* catalog nor the service; once it is, none of them raises RuntimeError.
C17_Uninitialized ==
    [][/\ initialized => initialized'
       /\ (~initialized /\ initialized') => (last'.op = "init_language" /\ last'.exc = "none")
       /\ (last'.op = "init_language" /\ last'.exc = "none") => initialized'
       /\ last'.op \in ThroughGetLanguage =>
            IF ~initialized
            THEN /\ last'.exc = "RuntimeError"
                 /\ <<catalog, service>>' = <<catalog, service>>
            ELSE last'.exc # "RuntimeError"
      ]_vars

\* after an init_language that failed, add_domain_file was refused
C17_Witness ==
    /\ ~initialized /\ ncalls = 2
    /\ last.op = "add_domain_file" /\ last.file = "domains" /\ last.exc = "RuntimeError"
    /\ data = EmptyDict

-----------------------------------------------------------------------------
(* Reading a source: the (triple, text) pairs a JSON document gives, read  *)
(* in the legacy shapes, in the domain-aware shape and in the              *)
(* single-language shapes                                                  *)

LegacyPairs(v) ==
    IF IsDict(v)
    THEN UNION {{<< <<ROOT_DOMAIN, v.items[i][1], Upper(v.items[i][2].items[j][1])>>,
                    PyStr(v.items[i][2].items[j][2]) >> :
                     j \in 1..Len(v.items[i][2].items)} :
                i \in {x \in 1..Len(v.items) : IsDict(v.items[x][2])}}
    ELSE IF IsList(v)
    THEN {<< <<ROOT_DOMAIN, RecGet(rec, <<"label">>), Upper(RecGet(rec, <<"lang">>))>>,
             RecGet(rec, <<"text">>) >> :
             rec \in {v.items[x] : x \in {y \in 1..Len(v.items) : IsDict(v.items[y])}}}
    ELSE {}

\* the pairs one domain key of a domain-aware document gives
DomainKeyPairs(dom, labels) ==
    UNION {{<< <<_normalize_domain(dom), labels.items[j][1],
                 Upper(labels.items[j][2].items[k][1])>>,
               PyStr(labels.items[j][2].items[k][2]) >> :
                k \in 1..Len(labels.items[j][2].items)} :
           j \in {x \in 1..Len(labels.items) : IsDict(labels.items[x][2])}}

DomainPairs(v) ==
    IF IsDict(v)
    THEN UNION {DomainKeyPairs(v.items[i][1], v.items[i][2]) :
                i \in {x \in 1..Len(v.items) : IsDict(v.items[x][2])}}
    ELSE {}

SinglePairs(v, lang, domain) ==
    IF IsDict(v)
    THEN {<< <<_normalize_domain(domain), v.items[i][1], Upper(lang)>>, PyStr(v.items[i][2]) >> :
             i \in 1..Len(v.items)}
    ELSE IF IsList(v)
    THEN {<< <<_normalize_domain(domain), RecGet(rec, <<"label">>), Upper(lang)>>,
             RecGet(rec, <<"text">>) >> :
             rec \in {v.items[x] : x \in {y \in 1..Len(v.items) : IsDict(v.items[y])}}}
    ELSE {}

\* the value of a file ("number" stands for no document)
ValueOf(f) == IF Files[f].state = "json" THEN Files[f].value ELSE JNum

-----------------------------------------------------------------------------
(* C18 *)

-----------------------------------------------------------------------------
(* C19 *)

AddOps == {"add_language_file", "add_domain_file", "add_single_language_file"}

\* the triples that occur in the input of an add_* call
InputTriples(c) ==
    LET pairs == IF c.op = "add_language_file" THEN LegacyPairs(ValueOf(c.file))
                 ELSE IF c.op = "add_domain_file" THEN DomainPairs(ValueOf(c.file))
                 ELSE SinglePairs(ValueOf(c.file), c.lang, c.domain)
    IN  {p[1] : p \in pairs}

\* C19: an add_language_file, add_domain_file or add_single_language_file on
\* the initialized service, whether it returns or raises, leaves the shared
\* instance the same object with its default language, allow-list and
\* current context, and keeps, with its text, every entry whose triple does
\* not occur in the input.
C19_Additive ==
    [][(last'.op \in AddOps /\ initialized) =>
         /\ instance' = instance /\ initialized'
         /\ default_lang' = default_lang
         /\ allowed' = allowed
         /\ context_domain' = context_domain
         /\ ctx_req' = ctx_req
         /\ \A k \in Entries(data) \ InputTriples(last') :
               k \in Entries(data') /\ TextAt(data', k) = TextAt(data, k)
      ]_vars

\* the legacy file has been added to an instance initialised from the domain
\* file with GLOBAL.DB as context
C19_Witness ==
    /\ instance = 1 /\ ncalls = 2
    /\ last.op = "add_language_file" /\ last.file = "legacy_obj" /\ last.exc = "none"
    /\ context_domain = GLOBAL_DB
    /\ <<GLOBAL_DB, LabelA, EN>> \in Entries(data)
    /\ <<ROOT_DOMAIN, LabelB, DE>> \in Entries(data)

-----------------------------------------------------------------------------
(* C20 *)

\* the outcome of the reader's call on a catalog with the store d
ReadOn(d) ==
    LET r == get_text(Catalog(d, default_lang, allowed, context_domain), last.read.label,
                      last.read.lang, None, None, last.read.domain)
    IN  <<r.exc, r.ret>>

\* the store a reload of the file leaves when nothing else runs
ReloadedStore ==
    reload_from_file(Catalog(last.old, default_lang, allowed, context_domain),
                     Files[last.file]).self._data

\* C20: a get_text made while reload_from_file runs returns or raises what
\* it would on the complete store from before the reload or on the complete
\* store the reload leaves.
C20_Atomic ==
    (last.op = "reload_from_file" /\ last.read.done) =>
        <<last.read.exc, last.read.ret>> \in {ReadOn(last.old), ReadOn(ReloadedStore)}

-----------------------------------------------------------------------------
(* C21 *)

\* the outcome of the reader's call on a catalog object
ReadOnCat(cat) ==
    LET r == get_text(cat, last.read.label, last.read.lang, None, None, None)
    IN  <<r.exc, r.ret>>

\* the init_language call under way, made with nothing else running
WholeInit ==
    init_language(Files[last.file], last.default_lang, last.allowed_langs, last.overwrite,
                  last.context, last.domain_aware)

\* C21: a text() made while init_language runs again returns or raises what
\* it would on the complete previous instance or, when the init succeeds,
\* on the completely loaded new instance with its context set; and the
\* object the service refers to is always one of these two.
C21_OneInstance ==
    last.op = "init_language again" =>
        /\ Self \in {last.prev} \cup (IF WholeInit.assigned THEN {WholeInit.self} ELSE {})
        /\ last.read.pc = "done" =>
              <<last.read.exc, last.read.ret>> \in
                  {ReadOnCat(last.prev)}
                  \cup (IF WholeInit.assigned THEN {ReadOnCat(WholeInit.self)} ELSE {})

\* the reader got the previous instance from get_language, init_language
\* then replaced it, and the reader's text came from the previous one
C21_Witness ==
    /\ last.op = "init_language again" /\ last.pc = "done" /\ instance = 2
    /\ last.read.pc = "done" /\ last.read.seen = 1
    /\ <<last.read.exc, last.read.ret>> = ReadOnCat(last.prev)
    /\ ReadOnCat(last.prev) # ReadOnCat(Self)

-----------------------------------------------------------------------------
(* C22 *)

\* what text(label, lang) returns or raises when resolved starting from d
ResolvedFrom(d) ==
    LET r == get_text(Catalog(data, default_lang, allowed, _normalize_domain(d)),
                      last.label, last.lang, None, None, None)
    IN  <<r.exc, r.ret>>

\* C22: the text() a thread makes without a domain after its own
\* set_language_context(d) is resolved starting from d, whatever context
\* another thread sets in the meantime.
C22_NoContextRace ==
    (TwoThreads /\ last.pc1 = "done") => <<last.exc, last.ret>> = ResolvedFrom(last.d)

-----------------------------------------------------------------------------
(* C23 *)

\* the reload under way, made with nothing else running: the HTTP status of
\* its failure (0 when it succeeds) and the configuration it loads
WholeReload ==
    LET v == _verify_token(last.x_admin_token, last.ADMIN_TOKEN)
        r == from_files(Language, QueryFiles[last.queries], CsvConfigFiles[last.csv_configs], TRUE)
    IN  IF v # 0 THEN [status |-> v, ret |-> NoConfig]
        ELSE IF r.exc # "none" THEN [status |-> 500, ret |-> NoConfig]
        ELSE [status |-> 0, ret |-> r.ret]

\* the configurations a request may see during the reload
OldOrNew == {last.prev} \cup (IF WholeReload.status = 0 THEN {WholeReload.ret} ELSE {})

\* C23: while reload-config runs, state.cfg is the complete previous
\* configuration or the complete new one and so is what a concurrent
\* request lists; a reload answered with an error leaves the previous
\* configuration in effect.
C23_AtomicSwap ==
    last.op = "reload_config" =>
        /\ cfg \in OldOrNew
        /\ (last.pc = "done" /\ last.status # 200) => cfg = last.prev
        /\ (last.read.pc = "done") =>
              \E c \in OldOrNew : /\ last.read.queries = list_query_labels(c)
                                  /\ last.read.csv_configs = list_csv_config_labels(c)

\* a reload that replaced the configuration by a different one after a
\* request had got the previous one, which that request then listed
C23_Witness ==
    /\ ReloadingConfig("done") /\ last.status = 200
    /\ cfg # last.prev /\ cfg = WholeReload.ret
    /\ last.read.pc = "done" /\ last.read.ref = last.prev
    /\ last.read.queries # list_query_labels(cfg)

-----------------------------------------------------------------------------
(* C24 *)

\* C24: a reload_from_file that returns leaves exactly the entries of the
\* file in the store, all under GLOBAL, each with a text the file gives for
\* it; one that fails leaves the store exactly as it was before the call.
C24_AllOrNothing ==
    [][(last'.op = "reload_from_file" /\ ncalls' = ncalls + 1) =>
          IF last'.exc = "none"
          THEN /\ Entries(data') = {pr[1] : pr \in LegacyPairs(ValueOf(last'.file))}
               /\ \A k \in Entries(data') :
                     <<k, TextAt(data', k)>> \in LegacyPairs(ValueOf(last'.file))
          ELSE data' = data
      ]_vars

-----------------------------------------------------------------------------
(* C25 *)

\* C25: an init_language that raises leaves the service as it was: the same
\* instance with its store, default language, allow-list and context, or
\* still no instance.
C25_FailedInit ==
    [][(last'.op = "init_language" /\ last'.exc # "none") =>
          <<catalog, service>>' = <<catalog, service>>]_vars

\* after a successful init_language, a second one stopped at a language its
\* allow-list refuses, with part of its file loaded
C25_Witness ==
    /\ initialized /\ instance = 1 /\ ncalls = 2
    /\ last.op = "init_language" /\ last.exc = "ValueError"
    /\ last.file = "legacy_obj" /\ last.allowed_langs # NoAllowList
    /\ Entries(data) # {}

-----------------------------------------------------------------------------
(* C26 *)

\* the default language is a non-empty uppercase code, one of the allow-list
\* when there is one
DefaultLangValid ==
    /\ Truthy(default_lang)
    /\ default_lang = Upper(default_lang)
    /\ allowed # NoAllowList => default_lang \in allowed

\* C26: from construction on the default language is an uppercase code of
\* the allow-list (if one is configured), before and after every call, and
\* a set_default_lang that fails leaves it unchanged.
C26_DefaultLang ==
    [][/\ DefaultLangValid
       /\ DefaultLangValid'
       /\ (last'.op = "set_default_lang" /\ last'.exc # "none") => default_lang' = default_lang
      ]_vars

-----------------------------------------------------------------------------
(* C27 *)

\* has_text answered true, and get_text was then called
Existing == last.op = "has_text, get_text" /\ last.done /\ last.has.exc = "none" /\ last.has.ret

\* the chain of the domain the two calls were given (else of the context)
AskedChain ==
    _domain_chain(_normalize_domain(IF Truthy(last.domain) THEN last.domain
                                    ELSE context_domain))

\* the first position of the chain whose domain has the label in one of the
\* languages codes (0 when none has)
FirstWith(codes) ==
    LET hits == {i \in 1..Len(AskedChain) :
                    \E c \in codes : <<AskedChain[i], last.label, c>> \in Entries(data)}
    IN  IF hits = {} THEN 0 ELSE CHOOSE i \in hits : \A j \in hits : i <= j

\* C27 as stated: whenever has_text(label, L, domain=d, recursive=true) is
\* true for a language L, get_text(label, L, domain=d) returns, and returns
\* the text stored under L at the most specific domain of the chain that has
\* the label in L.
C27_Original ==
    (Existing /\ Truthy(last.lang)) =>
        /\ last.exc = "none"
        /\ FirstWith({Upper(last.lang)}) # 0
        /\ last.ret = TextAt(data, <<AskedChain[FirstWith({Upper(last.lang)})], last.label,
                                     Upper(last.lang)>>)

\* C27 amended: whenever has_text(label, L, domain=d, recursive=true) is
\* true for a non-empty L, get_text(label, L, domain=d) returns; it returns
\* the text of the most specific domain of the chain that has the label in
\* L or in the default language: the text under L if that domain has one,
\* else the text under the default language.
C27_Exists ==
    (Existing /\ Truthy(last.lang)) =>
        LET i == FirstWith({Upper(last.lang), default_lang})
            L == IF <<AskedChain[i], last.label, Upper(last.lang)>> \in Entries(data)
                 THEN Upper(last.lang) ELSE default_lang
        IN  /\ last.exc = "none"
            /\ i # 0
            /\ last.ret = TextAt(data, <<AskedChain[i], last.label, L>>)

\* has_text was true for DE, stored at GLOBAL only, and get_text returned the
\* text the more specific GLOBAL.DB.ORA holds in the default language EN
C27_Witness ==
    /\ Existing /\ last.lang = DE /\ default_lang = EN
    /\ Entries(data) = {<<ROOT_DOMAIN, LabelA, DE>>, <<GLOBAL_DB_ORA, LabelA, EN>>}
    /\ last.domain = <<" ">> \o GLOBAL_DB_ORA \o <<" ">>
    /\ last.ret = TextOf(GLOBAL_DB_ORA, EN)

-----------------------------------------------------------------------------
(* C28 *)

\* the moves of a job's status the claim allows
StatusMoves ==
    {<<PENDING, RUNNING>>, <<RUNNING, SUCCESS>>, <<RUNNING, ERROR>>}

\* C28: a job's status only moves PENDING -> RUNNING -> SUCCESS or
\* PENDING -> RUNNING -> ERROR, SUCCESS and ERROR never change again, a job
\* that has an error never is or becomes SUCCESS and one that has a result
\* never is or becomes ERROR, and a registered job stays registered, with
\* any number of jobs running at once.
C28_JobLifecycle ==
    [][\A id \in DOMAIN jobs :
          /\ id \in DOMAIN jobs'
          /\ jobs'[id].status # jobs[id].status =>
                <<jobs[id].status, jobs'[id].status>> \in StatusMoves
          /\ jobs[id].error # None =>
                jobs'[id].error = jobs[id].error /\ jobs'[id].status \in {RUNNING, ERROR}
          /\ jobs[id].result # None =>
                jobs'[id].result = jobs[id].result /\ jobs'[id].status \in {RUNNING, SUCCESS}
          /\ jobs'[id].status = SUCCESS => jobs'[id].error = None
          /\ jobs'[id].status = ERROR => jobs'[id].result = None /\ jobs'[id].error # None]_vars

\* two jobs ran at once; one ended in SUCCESS with its result, the other in
\* ERROR with its error
C28_Witness ==
    /\ DOMAIN jobs = 1..2
    /\ \E a, b \in DOMAIN jobs :
          /\ jobs[a].status = SUCCESS /\ jobs[a].result # None /\ jobs[a]._thread = "ended"
          /\ jobs[b].status = ERROR /\ jobs[b].error # None /\ jobs[b]._thread = "ended"

-----------------------------------------------------------------------------
(* C29 *)

\* C29: a GET /jobs/{job_id} response that reports the job as SUCCESS or
\* ERROR reports its end_time too.
C29_EndTimeSet ==
    (last.op = "get_job" /\ last.pc = "done" /\ last.status_code = 200
        /\ last.body.status \in {SUCCESS, ERROR})
    => last.body.end_time # None

-----------------------------------------------------------------------------
(* C30 *)

\* a foreground export request was answered on a server with a configuration
Exported ==
    last.op = "export_csv" /\ last.pc = "done" /\ ~last.background /\ cfg # NoConfig

\* C30: run_export checks both labels first: with an unknown query label or
\* an unknown CSV-config label it raises ValueError, answered with HTTP 400,
\* and no statement is executed and no file written; with two known labels
\* CsvReporter.run executes the statement and the written path is returned.
C30_ValidatesLabels ==
    Exported =>
        IF /\ last.select_label \in DOMAIN cfg._queries
           /\ last.csv_config_label \in DOMAIN cfg._csv_configs
        THEN /\ last.exc = "none" /\ last.status_code = 200 /\ last.ret = last.out_path
             /\ executed = {cfg._queries[last.select_label]}
             /\ written = {last.out_path}
        ELSE /\ last.exc = "ValueError" /\ last.status_code = 400
             /\ executed = {} /\ written = {}

-----------------------------------------------------------------------------
(* C9 *)

\* number of "."-separated segments of a string
Segments(s) == Cardinality({i \in 1..Len(s) : s[i] = "."}) + 1

Occurrences(seq, x) == Cardinality({i \in 1..Len(seq) : seq[i] = x})

IsChainCall == last.op = "_domain_chain" /\ last.done

\* C9 as stated: for every non-empty domain, whatever its first segment, the
\* chain holds GLOBAL exactly once, as its last element, and is as long as
\* the domain has segments.
C9_Original ==
    (IsChainCall /\ Truthy(last.domain) /\ Strip(last.domain) # EmptyStr) =>
        /\ Occurrences(last.ret, ROOT_DOMAIN) = 1
        /\ last.ret[Len(last.ret)] = ROOT_DOMAIN
        /\ Len(last.ret) = Segments(Strip(last.domain))

\* C9 amended: the chain of every domain holds GLOBAL exactly once, as its
\* last element; its length is the number of segments of the normalized
\* domain when the first segment is GLOBAL, and one more than that when the
\* first segment is something else (GLOBAL is then appended).
C9_Chain ==
    IsChainCall =>
        LET d == _normalize_domain(last.domain)
            firstSeg == Split(d)[1]
        IN  /\ Occurrences(last.ret, ROOT_DOMAIN) = 1
            /\ last.ret[Len(last.ret)] = ROOT_DOMAIN
            /\ Len(last.ret) =
                 IF firstSeg = ROOT_DOMAIN THEN Segments(d) ELSE Segments(d) + 1

\* a domain whose first segment is not GLOBAL has been chained
C9_Witness ==
    /\ IsChainCall
    /\ last.domain = <<"DB", ".", "GLOBAL">>
    /\ last.ret = << <<"DB", ".", "GLOBAL">>, <<"DB">>, ROOT_DOMAIN >>

====
